---------------------------- MODULE Spec2Model ----------------------------
(***************************************************************************)
(* Pelican Art Gallery: the artwork-group store, the HTTP handlers that    *)
(* drive it, the OpenRouter generation client, the per-IP rate limiter of  *)
(* main.go and the workshop client's addModel flow.                        *)
(*                                                                         *)
(* Text is modelled as follows: titles, prompts, categories and model ids  *)
(* are opaque strings ("" is Go's empty string); SVG text and chat message *)
(* content are sequences of characters, so that strings.TrimSpace and      *)
(* strings.ReplaceAll are computed and not assumed.  Temperatures are in   *)
(* tenths (7 is 0.7).                                                      *)
(***************************************************************************)
EXTENDS Integers, Sequences, FiniteSets, TLC

VARIABLES
    groups,          \* table artwork_groups: id -> row
    artworks,        \* table artworks: id -> row
    nextGroupId,     \* AUTOINCREMENT counter of artwork_groups
    nextArtworkId,   \* AUTOINCREMENT counter of artworks
    schema,          \* the database file's schema: tables present, migration rows
    conns,           \* the sql.DB pool: foreign_keys setting of each open connection
    editingEnabled,  \* ENABLE_EDITING is "true" or "1" in the process environment
    apiKeySet,       \* OPENROUTER_API_KEY is non-empty in the process environment
    reqs,            \* generate requests in flight: slot -> handler position and locals
    lastSave,        \* history: artwork id -> svg argument of the latest SaveArtworkSVG on it
    resp,            \* history: the HTTP response written last
    rl,              \* the RateLimiter struct: requests, window, limit
    now,             \* time.Now(), in ticks
    mu,              \* RateLimiter.mu: 0 when free, else the goroutine holding it
    procs,           \* goroutines inside RateLimiter.Allow: position and locals
    admitted,        \* history: timestamps of admitted requests per key, current window
    client,          \* workshop client: currentGroup, formData, addModel position
    net              \* history: the API requests the workshop client has sent, in order

dbVars     == <<groups, artworks, nextGroupId, nextArtworkId, schema>>
serverVars == <<groups, artworks, nextGroupId, nextArtworkId, schema, conns,
                editingEnabled, apiKeySet, reqs, lastSave, resp>>
rlVars     == <<rl, now, mu, procs, admitted>>
clientVars == <<client, net>>
vars       == <<groups, artworks, nextGroupId, nextArtworkId, schema, conns,
                editingEnabled, apiKeySet, reqs, lastSave, resp,
                rl, now, mu, procs, admitted, client, net>>

---------------------------------------------------------------------------
(* Bounds of the model.                                                    *)

MaxGroups   == 1     \* group rows ever inserted
MaxArtworks == 1     \* artwork rows ever inserted
MaxConns    == 2     \* connections the pool has open
MaxReqs     == 2     \* generate requests in flight at once

ReqIds == 1..MaxReqs

EmptySVG == << >>

---------------------------------------------------------------------------
(* Store: internal/database.                                               *)

\* New + CreateTables: sql.Open creates a pool; PRAGMA foreign_keys = ON is
\* executed once, on the one connection the pool hands out for that Exec.
\* The schema of a database file: whether the table schema_migrations and
\* the data tables (with their indexes) exist, and the number of rows of
\* schema_migrations with version 1.
NewFile  == [migrations |-> FALSE, tables |-> FALSE, recorded |-> 0]
Migrated == [migrations |-> TRUE, tables |-> TRUE, recorded |-> 1]

\* Where a run of CreateTables can be cut off: after its first, second or
\* third statement; NoStop is a run that returns.
NoStop == 0
Stops  == {NoStop, 1, 2, 3}

\* CreateTables on the file db, cut off at stop.  The run returns at once
\* when sqlite_master lists artwork_groups; CREATE TABLE fails on a table
\* that exists.
CreateTables(db, stop) ==
    IF db.tables
    THEN [err |-> "", schema |-> db]
    ELSE IF db.migrations
    THEN [err |-> "failed to create migrations table", schema |-> db]
    ELSE LET s1 == [db EXCEPT !.migrations = TRUE]
             s2 == [s1 EXCEPT !.tables = TRUE]
             s3 == [s2 EXCEPT !.recorded = @ + 1]
         IN  IF stop = 1 THEN [err |-> "interrupted", schema |-> s1]
             ELSE IF stop = 2 THEN [err |-> "interrupted", schema |-> s2]
             ELSE IF stop = 3 THEN [err |-> "interrupted", schema |-> s3]
             ELSE [err |-> "", schema |-> s3]

NewPool == << TRUE >>

\* A connection the pool dials later is a fresh SQLite connection: the PRAGMA
\* was never executed on it and SQLite's default is foreign_keys = OFF.
DialConn == FALSE

\* The foreign_keys settings a statement can run under: the pool picks any
\* open connection.
ConnFKs == { conns[i] : i \in DOMAIN conns }

Restrict(f, S) == [x \in S |-> f[x]]

\* An insert that takes the largest stored id plus one, as a rowid table
\* without AUTOINCREMENT does.
CreateGroupReusing(group) ==
    LET id == IF DOMAIN groups = {} THEN 1
              ELSE 1 + CHOOSE m \in DOMAIN groups : \A g \in DOMAIN groups : g <= m
    IN  [err |-> FALSE, id |-> id, groups |-> (id :> group) @@ groups]

CreateGroup(group) ==
    [err |-> FALSE, id |-> nextGroupId,
     groups |-> (nextGroupId :> group) @@ groups]

UpdateGroup(id, group) ==
    IF id \in DOMAIN groups
    THEN [err |-> FALSE, groups |-> [groups EXCEPT ![id] = group]]
    ELSE [err |-> TRUE, groups |-> groups]

GetGroup(id) ==
    IF id \in DOMAIN groups
    THEN [err |-> FALSE, group |-> groups[id]]
    ELSE [err |-> TRUE]

\* INSERT INTO artworks: with foreign_keys ON the row must name an existing group.
CreateArtwork(fk, artwork) ==
    IF fk /\ artwork.group_id \notin DOMAIN groups
    THEN [err |-> TRUE, id |-> 0, artworks |-> artworks]
    ELSE [err |-> FALSE, id |-> nextArtworkId,
          artworks |-> (nextArtworkId :> artwork) @@ artworks]

GetArtwork(id) ==
    IF id \in DOMAIN artworks
    THEN [err |-> FALSE, artwork |-> artworks[id]]
    ELSE [err |-> TRUE]

\* An update that rewrites the whole row, the svg column with its default.
UpdateArtworkRewriting(id, temperature, maxTokens) ==
    IF id \in DOMAIN artworks
    THEN [err |-> FALSE,
          artworks |-> [artworks EXCEPT ![id].temperature = temperature,
                                        ![id].max_tokens = maxTokens,
                                        ![id].svg = EmptySVG]]
    ELSE [err |-> TRUE, artworks |-> artworks]

UpdateArtwork(id, temperature, maxTokens) ==
    IF id \in DOMAIN artworks
    THEN [err |-> FALSE,
          artworks |-> [artworks EXCEPT ![id].temperature = temperature,
                                        ![id].max_tokens = maxTokens]]
    ELSE [err |-> TRUE, artworks |-> artworks]

\* A store that appends the new text to the stored one.
SaveArtworkSVGMerged(id, svg) ==
    IF id \in DOMAIN artworks
    THEN [err |-> FALSE, artworks |-> [artworks EXCEPT ![id].svg = @ \o svg]]
    ELSE [err |-> TRUE, artworks |-> artworks]

SaveArtworkSVG(id, svg) ==
    IF id \in DOMAIN artworks
    THEN [err |-> FALSE, artworks |-> [artworks EXCEPT ![id].svg = svg]]
    ELSE [err |-> TRUE, artworks |-> artworks]

\* A delete that does not look at the rows affected.
DeleteArtworkSilent(id) ==
    [err |-> FALSE, artworks |-> Restrict(artworks, DOMAIN artworks \ {id})]

DeleteArtwork(id) ==
    IF id \in DOMAIN artworks
    THEN [err |-> FALSE, artworks |-> Restrict(artworks, DOMAIN artworks \ {id})]
    ELSE [err |-> TRUE, artworks |-> artworks]

\* DELETE FROM artwork_groups: ON DELETE CASCADE removes the group's artworks
\* only on a connection with foreign_keys ON.
DeleteGroup(fk, id) ==
    IF id \in DOMAIN groups
    THEN [err |-> FALSE,
          groups |-> Restrict(groups, DOMAIN groups \ {id}),
          artworks |-> IF fk
                       THEN Restrict(artworks,
                                {a \in DOMAIN artworks : artworks[a].group_id # id})
                       ELSE artworks]
    ELSE [err |-> TRUE, groups |-> groups, artworks |-> artworks]


---------------------------------------------------------------------------
(* Generation client: Handler.generateSVG and internal/config.             *)

\* Characters strings.TrimSpace removes.
Whitespace == {" ", "\n"}

RECURSIVE TrimLeft(_)
TrimLeft(s) ==
    IF s # << >> /\ Head(s) \in Whitespace THEN TrimLeft(Tail(s)) ELSE s

RECURSIVE TrimRight(_)
TrimRight(s) ==
    IF s # << >> /\ s[Len(s)] \in Whitespace
    THEN TrimRight(SubSeq(s, 1, Len(s) - 1))
    ELSE s

TrimSpace(s) == TrimRight(TrimLeft(s))

\* models.PromptConfig as loaded from config/prompt.yaml: the system prompts
\* and the user prompt template, a text with one placeholder.
Placeholder == "{art_work_description}"
SystemPrompts == << [role |-> "system", content |-> <<"You draw SVG.">>] >>
UserPromptTemplate == <<"Draw: ", Placeholder, " as SVG">>

\* A formatter that sends the template as it is.
FormatUserPromptVerbatim(template, description) == template

\* strings.ReplaceAll(template, "{art_work_description}", description)
FormatUserPrompt(template, description) ==
    [i \in DOMAIN template |->
        IF template[i] = Placeholder THEN description ELSE template[i]]

\* The models.OpenRouterRequest generateSVG marshals and posts.
OpenRouterRequest(prompt, model, temperature, maxTokens) ==
    [model       |-> model,
     messages    |-> Append(SystemPrompts,
                        [role |-> "user",
                         content |-> FormatUserPrompt(UserPromptTemplate, prompt)]),
     temperature |-> temperature,
     max_tokens  |-> maxTokens,
     reasoning   |-> [effort |-> "medium", enabled |-> TRUE, exclude |-> TRUE]]

\* What client.Do can come back with.  delivered = FALSE is a transport
\* failure or the 300 s timeout; a body either parses as
\* models.OpenRouterResponse (parses = TRUE, with its error object and its
\* choices' message contents) or does not.
\* "~~~" stands for the three-backtick fence marker, "~~~svg" for the
\* marker tagged svg.
RawContents ==
    { <<"<", "a", ">">>, <<" ", "<", "b", ">", "\n">>, <<" ", "\n">>,
      <<"~~~svg", "\n", "<", "a", ">", "\n", "~~~">> }

ApiResponses ==
    { [delivered |-> FALSE, status |-> 0,   parses |-> FALSE, error |-> FALSE, choices |-> << >>],
      [delivered |-> TRUE,  status |-> 429, parses |-> TRUE,  error |-> TRUE,  choices |-> << >>],
      [delivered |-> TRUE,  status |-> 200, parses |-> FALSE, error |-> FALSE, choices |-> << >>],
      [delivered |-> TRUE,  status |-> 200, parses |-> TRUE,  error |-> TRUE,  choices |-> << <<"<", "a", ">">> >>],
      [delivered |-> TRUE,  status |-> 200, parses |-> TRUE,  error |-> FALSE, choices |-> << >>] }
    \cup { [delivered |-> TRUE, status |-> 200, parses |-> TRUE, error |-> FALSE,
            choices |-> << c >>] : c \in RawContents }
    \cup { [delivered |-> TRUE, status |-> 200, parses |-> TRUE, error |-> FALSE,
            choices |-> << <<"<", "b", ">">>, <<"<", "a", ">">> >>] }

\* generateSVG from client.Do on: the checks in the order the code makes them.
\* err = "" is success.
ReadResponse(r) ==
    IF ~r.delivered       THEN [err |-> "failed to make request", svg |-> EmptySVG]
    ELSE IF r.status # 200 THEN [err |-> "OpenRouter API returned status", svg |-> EmptySVG]
    ELSE IF ~r.parses     THEN [err |-> "failed to parse response", svg |-> EmptySVG]
    ELSE IF r.error       THEN [err |-> "OpenRouter API error", svg |-> EmptySVG]
    ELSE IF Len(r.choices) = 0
                          THEN [err |-> "no response from OpenRouter API", svg |-> EmptySVG]
    ELSE [err |-> "", svg |-> TrimSpace(r.choices[1])]

NoKeyError == "OPENROUTER_API_KEY environment variable is not set"

\* The errors generateSVG returns.
GenerationErrors ==
    { NoKeyError, "failed to make request", "OpenRouter API returned status",
      "failed to parse response", "OpenRouter API error",
      "no response from OpenRouter API" }

---------------------------------------------------------------------------
(* HTTP handlers: internal/api.  Each takes what the request carries:       *)
(* idStr is the id path segment (NaN when strconv.Atoi fails on it), bodyOK *)
(* whether the JSON body decodes.                                           *)

NaN == -1

\* A handler that does not consult the editing flag.
isEditingEnabledAlways == TRUE

\* config.IsEditingEnabled, read from the environment on every request.
isEditingEnabled == editingEnabled

Idle == [pc |-> "idle"]
NoResp == [op |-> "", status |-> 0, id |-> 0, err |-> "", svg |-> EmptySVG, sent |-> 0]

\* writeJSON / writeJSONError.  A response is the handler that wrote it, the
\* status, and of the body: the row id, the error text of a failed
\* generation and the svg.  sent is history: the API requests the handler's
\* invocation posted.
Respond(op, status) ==
    resp' = [op |-> op, status |-> status, id |-> 0, err |-> "",
             svg |-> EmptySVG, sent |-> 0]

RespondRow(op, status, id) ==
    resp' = [op |-> op, status |-> status, id |-> id, err |-> "",
             svg |-> EmptySVG, sent |-> 0]

RespondGen(op, status, id, err, svg, sent) ==
    resp' = [op |-> op, status |-> status, id |-> id, err |-> err,
             svg |-> svg, sent |-> sent]

\* A create handler that stores the request without looking at its title
\* and prompt.
CreateGroupHandlerUnchecked(bodyOK, title, prompt, category) ==
    /\ UNCHANGED <<artworks, nextArtworkId, schema, conns, editingEnabled, apiKeySet, reqs, lastSave>>
    /\ IF ~isEditingEnabled
       THEN Respond("CreateGroup", 403) /\ UNCHANGED <<groups, nextGroupId>>
       ELSE IF ~bodyOK
       THEN Respond("CreateGroup", 400) /\ UNCHANGED <<groups, nextGroupId>>
       ELSE LET r == CreateGroup([title |-> title, prompt |-> prompt, category |-> category])
            IN  /\ groups' = r.groups
                /\ nextGroupId' = nextGroupId + 1
                /\ RespondRow("CreateGroup", 201, r.id)

CreateGroupHandler(bodyOK, title, prompt, category) ==
    /\ UNCHANGED <<artworks, nextArtworkId, schema, conns, editingEnabled, apiKeySet, reqs, lastSave>>
    /\ IF ~isEditingEnabled
       THEN Respond("CreateGroup", 403) /\ UNCHANGED <<groups, nextGroupId>>
       ELSE IF ~bodyOK \/ title = "" \/ prompt = ""
       THEN Respond("CreateGroup", 400) /\ UNCHANGED <<groups, nextGroupId>>
       ELSE LET r == CreateGroup([title |-> title, prompt |-> prompt, category |-> category])
            IN  /\ groups' = r.groups
                /\ nextGroupId' = nextGroupId + 1
                /\ RespondRow("CreateGroup", 201, r.id)

UpdateGroupHandler(idStr, bodyOK, title, prompt, category) ==
    /\ UNCHANGED <<artworks, nextGroupId, nextArtworkId, schema, conns, editingEnabled,
                   apiKeySet, reqs, lastSave>>
    /\ IF ~isEditingEnabled
       THEN Respond("UpdateGroup", 403) /\ UNCHANGED groups
       ELSE IF idStr = NaN \/ ~bodyOK \/ title = "" \/ prompt = ""
       THEN Respond("UpdateGroup", 400) /\ UNCHANGED groups
       ELSE LET r == UpdateGroup(idStr, [title |-> title, prompt |-> prompt,
                                         category |-> category])
            IN  /\ groups' = r.groups
                /\ Respond("UpdateGroup", IF r.err THEN 500 ELSE 200)

DeleteGroupHandler(idStr) ==
    /\ UNCHANGED <<nextGroupId, nextArtworkId, schema, conns, editingEnabled, apiKeySet,
                   reqs, lastSave>>
    /\ IF ~isEditingEnabled
       THEN Respond("DeleteGroup", 403) /\ UNCHANGED <<groups, artworks>>
       ELSE IF idStr = NaN
       THEN Respond("DeleteGroup", 400) /\ UNCHANGED <<groups, artworks>>
       ELSE \E fk \in ConnFKs :
              LET r == DeleteGroup(fk, idStr)
              IN  /\ groups' = r.groups
                  /\ artworks' = r.artworks
                  /\ Respond("DeleteGroup", IF r.err THEN 500 ELSE 200)

CreateArtworkHandler(bodyOK, groupID, model, temperature, maxTokens) ==
    /\ UNCHANGED <<groups, nextGroupId, schema, conns, editingEnabled, apiKeySet, reqs, lastSave>>
    /\ IF ~isEditingEnabled
       THEN Respond("CreateArtwork", 403) /\ UNCHANGED <<artworks, nextArtworkId>>
       ELSE IF ~bodyOK \/ groupID = 0 \/ model = ""
       THEN Respond("CreateArtwork", 400) /\ UNCHANGED <<artworks, nextArtworkId>>
       ELSE \E fk \in ConnFKs :
              LET r == CreateArtwork(fk, [group_id |-> groupID, model |-> model,
                                          temperature |-> temperature,
                                          max_tokens |-> maxTokens, svg |-> EmptySVG])
              IN  IF r.err
                  THEN Respond("CreateArtwork", 500) /\ UNCHANGED <<artworks, nextArtworkId>>
                  ELSE /\ artworks' = r.artworks
                       /\ nextArtworkId' = nextArtworkId + 1
                       /\ RespondRow("CreateArtwork", 201, r.id)

\* UpdateArtwork, then GetArtwork for the response body.
UpdateArtworkHandler(idStr, bodyOK, temperature, maxTokens) ==
    /\ UNCHANGED <<groups, nextGroupId, nextArtworkId, schema, conns, editingEnabled,
                   apiKeySet, reqs, lastSave>>
    /\ IF ~isEditingEnabled
       THEN Respond("UpdateArtwork", 403) /\ UNCHANGED artworks
       ELSE IF idStr = NaN \/ ~bodyOK
       THEN Respond("UpdateArtwork", 400) /\ UNCHANGED artworks
       ELSE LET r == UpdateArtwork(idStr, temperature, maxTokens)
            IN  /\ artworks' = r.artworks
                /\ Respond("UpdateArtwork", IF r.err THEN 500 ELSE 200)

\* A delete handler that also removes a group left without artworks.
DeleteArtworkHandlerPruning(idStr) ==
    /\ UNCHANGED <<nextGroupId, nextArtworkId, schema, conns, editingEnabled,
                   apiKeySet, reqs, lastSave>>
    /\ IF ~isEditingEnabled
       THEN Respond("DeleteArtwork", 403) /\ UNCHANGED <<groups, artworks>>
       ELSE IF idStr = NaN
       THEN Respond("DeleteArtwork", 400) /\ UNCHANGED <<groups, artworks>>
       ELSE LET r == DeleteArtwork(idStr)
                used == { r.artworks[a].group_id : a \in DOMAIN r.artworks }
            IN  /\ artworks' = r.artworks
                /\ groups' = IF r.err THEN groups
                             ELSE Restrict(groups, DOMAIN groups \cap used)
                /\ Respond("DeleteArtwork", IF r.err THEN 500 ELSE 200)

DeleteArtworkHandler(idStr) ==
    /\ UNCHANGED <<groups, nextGroupId, nextArtworkId, schema, conns, editingEnabled,
                   apiKeySet, reqs, lastSave>>
    /\ IF ~isEditingEnabled
       THEN Respond("DeleteArtwork", 403) /\ UNCHANGED artworks
       ELSE IF idStr = NaN
       THEN Respond("DeleteArtwork", 400) /\ UNCHANGED artworks
       ELSE LET r == DeleteArtwork(idStr)
            IN  /\ artworks' = r.artworks
                /\ Respond("DeleteArtwork", IF r.err THEN 500 ELSE 200)

\* GetGroup, then UpdateGroup(*group) with the uploaded bytes set on the
\* struct; UpdateGroup writes title, prompt, category, original_url,
\* artist_name and updated_at, so the row's modelled columns are rewritten
\* with the values just read.  formOK: the multipart form parses, holds the
\* file and its content type is an accepted image type.
UploadOriginalArtworkHandler(idStr, formOK) ==
    /\ UNCHANGED <<artworks, nextGroupId, nextArtworkId, schema, conns, editingEnabled,
                   apiKeySet, reqs, lastSave>>
    /\ IF ~isEditingEnabled
       THEN Respond("UploadOriginalArtwork", 403) /\ UNCHANGED groups
       ELSE IF idStr = NaN \/ ~formOK
       THEN Respond("UploadOriginalArtwork", 400) /\ UNCHANGED groups
       ELSE IF GetGroup(idStr).err
       THEN Respond("UploadOriginalArtwork", 404) /\ UNCHANGED groups
       ELSE LET r == UpdateGroup(idStr, GetGroup(idStr).group)
            IN  /\ groups' = r.groups
                /\ Respond("UploadOriginalArtwork", IF r.err THEN 500 ELSE 200)

\* db.SetFeaturedArtwork is not among the store's sources: it fails for an
\* unknown artwork and writes none of the modelled columns.
SetFeaturedArtwork(id) ==
    [err |-> id \notin DOMAIN artworks, artworks |-> artworks]

SetFeaturedArtworkHandler(idStr) ==
    /\ UNCHANGED <<groups, nextGroupId, nextArtworkId, schema, conns, editingEnabled,
                   apiKeySet, reqs, lastSave>>
    /\ IF ~isEditingEnabled
       THEN Respond("SetFeaturedArtwork", 403) /\ UNCHANGED artworks
       ELSE IF idStr = NaN
       THEN Respond("SetFeaturedArtwork", 400) /\ UNCHANGED artworks
       ELSE LET r == SetFeaturedArtwork(idStr)
            IN  /\ artworks' = r.artworks
                /\ Respond("SetFeaturedArtwork", IF r.err THEN 500 ELSE 200)

---------------------------------------------------------------------------
(* Generation: GenerateHandler, GenerateArtworkHandler, generateSVG.  A     *)
(* handler blocks in client.Do, so a request occupies a slot of reqs while  *)
(* other requests run.                                                      *)

NoSave == << "none" >>

\* A client that posts without looking at the API key.
RequestsSentAlways(keySet) == 1

\* generateSVG up to and including client.Do: the number of HTTP requests
\* this invocation sends.
RequestsSent(keySet) == IF keySet THEN 1 ELSE 0

InFlight(s) == reqs[s].pc \in {"getGroup", "waiting"}

\* POST /api/generate of main.go: prompt and parameters come in the body.
GenerateHandler(s, methodOK, bodyOK, prompt, model, temperature, maxTokens) ==
    /\ reqs[s].pc = "idle"
    /\ UNCHANGED <<dbVars, conns, editingEnabled, apiKeySet, lastSave>>
    /\ IF ~methodOK
       THEN Respond("Generate", 405) /\ UNCHANGED reqs
       ELSE IF ~isEditingEnabled
       THEN Respond("Generate", 403) /\ UNCHANGED reqs
       ELSE IF \/ ~bodyOK \/ prompt = "" \/ model = ""
               \/ temperature < 0 \/ temperature > 10 \/ maxTokens <= 0
       THEN Respond("Generate", 400) /\ UNCHANGED reqs
       ELSE IF RequestsSent(apiKeySet) = 0
       THEN RespondGen("Generate", 500, 0, NoKeyError, EmptySVG, 0) /\ UNCHANGED reqs
       ELSE /\ reqs' = [reqs EXCEPT ![s] =
                           [pc |-> "direct", sent |-> RequestsSent(apiKeySet),
                            args |-> OpenRouterRequest(prompt, model, temperature, maxTokens)]]
            /\ UNCHANGED resp

\* client.Do returns r to GenerateHandler.
GenerateHandlerReturn(s, r) ==
    /\ reqs[s].pc = "direct"
    /\ UNCHANGED <<dbVars, conns, editingEnabled, apiKeySet, lastSave>>
    /\ reqs' = [reqs EXCEPT ![s] = Idle]
    /\ LET out == ReadResponse(r)
       IN  RespondGen("Generate", IF out.err = "" THEN 200 ELSE 500, 0,
                      out.err, out.svg, reqs[s].sent)

\* GenerateArtworkHandler up to and including GetArtwork.
GenerateArtworkHandler(s, methodOK, bodyOK, artworkID) ==
    /\ reqs[s].pc = "idle"
    /\ UNCHANGED <<dbVars, conns, editingEnabled, apiKeySet, lastSave>>
    /\ IF ~methodOK
       THEN Respond("GenerateArtwork", 405) /\ UNCHANGED reqs
       ELSE IF ~isEditingEnabled
       THEN Respond("GenerateArtwork", 403) /\ UNCHANGED reqs
       ELSE IF ~bodyOK \/ artworkID = 0
       THEN Respond("GenerateArtwork", 400) /\ UNCHANGED reqs
       ELSE IF GetArtwork(artworkID).err
       THEN Respond("GenerateArtwork", 500) /\ UNCHANGED reqs
       ELSE LET a == GetArtwork(artworkID).artwork
            IN  /\ reqs' = [reqs EXCEPT ![s] =
                               [pc |-> "getGroup", id |-> artworkID, over |-> NoSave,
                                artwork |-> [group_id |-> a.group_id, model |-> a.model,
                                             temperature |-> a.temperature,
                                             max_tokens |-> a.max_tokens]]]
                /\ UNCHANGED resp

\* GetGroup(artwork.GroupID), then generateSVG up to and including client.Do.
GenerateArtworkCall(s) ==
    /\ reqs[s].pc = "getGroup"
    /\ UNCHANGED <<dbVars, conns, editingEnabled, apiKeySet, lastSave>>
    /\ LET a == reqs[s].artwork
       IN  IF GetGroup(a.group_id).err
           THEN /\ Respond("GenerateArtwork", 500)
                /\ reqs' = [reqs EXCEPT ![s] = Idle]
           ELSE IF RequestsSent(apiKeySet) = 0
           THEN /\ RespondGen("GenerateArtwork", 500, 0, NoKeyError, EmptySVG, 0)
                /\ reqs' = [reqs EXCEPT ![s] = Idle]
           ELSE /\ reqs' = [reqs EXCEPT ![s] =
                               [pc |-> "waiting", id |-> reqs[s].id, over |-> reqs[s].over,
                                sent |-> RequestsSent(apiKeySet),
                                args |-> OpenRouterRequest(GetGroup(a.group_id).group.prompt,
                                            a.model, a.temperature, a.max_tokens)]]
                /\ UNCHANGED resp

\* A tail that stores whatever generateSVG returned, error or not.
GenerateArtworkSaveAlways(id, out) ==
    LET sv == SaveArtworkSVG(id, out.svg)
    IN  [status |-> IF out.err = "" /\ ~sv.err THEN 200 ELSE 500,
         err |-> out.err, svg |-> out.svg,
         saved |-> TRUE, rowFound |-> ~sv.err, artworks |-> sv.artworks]

\* The tail of GenerateArtworkHandler, given what generateSVG returned:
\* an error is answered 500 at once; otherwise SaveArtworkSVG, then 200.
GenerateArtworkSave(id, out) ==
    IF out.err # ""
    THEN [status |-> 500, err |-> out.err, svg |-> EmptySVG,
          saved |-> FALSE, rowFound |-> FALSE, artworks |-> artworks]
    ELSE LET sv == SaveArtworkSVG(id, out.svg)
         IN  IF sv.err
             THEN [status |-> 500, err |-> "Failed to save SVG", svg |-> EmptySVG,
                   saved |-> TRUE, rowFound |-> FALSE, artworks |-> sv.artworks]
             ELSE [status |-> 200, err |-> "", svg |-> out.svg,
                   saved |-> TRUE, rowFound |-> TRUE, artworks |-> sv.artworks]

\* client.Do returns r to generateSVG, and the handler finishes.  lastSave
\* and over are history: over notes, on every other request in flight for
\* the same artwork, the svg this one stored.
GenerateArtworkReturn(s, r) ==
    /\ reqs[s].pc = "waiting"
    /\ UNCHANGED <<groups, nextGroupId, nextArtworkId, schema, conns, editingEnabled, apiKeySet>>
    /\ LET out == ReadResponse(r)
           id  == reqs[s].id
           fin == GenerateArtworkSave(id, out)
       IN  /\ artworks' = fin.artworks
           /\ lastSave' = IF fin.saved
                          THEN (id :> [svg |-> out.svg, over |-> reqs[s].over]) @@ lastSave
                          ELSE lastSave
           /\ reqs' = [t \in ReqIds |->
                         IF t = s THEN Idle
                         ELSE IF InFlight(t) /\ reqs[t].id = id /\ fin.rowFound
                         THEN [reqs[t] EXCEPT !.over = out.svg]
                         ELSE reqs[t]]
           /\ RespondGen("GenerateArtwork", fin.status,
                        IF fin.status = 200 THEN id ELSE 0, fin.err, fin.svg, reqs[s].sent)

---------------------------------------------------------------------------
(* The process and its environment.                                         *)

\* database/sql dials another connection when a statement finds none idle.
OpenConn ==
    /\ UNCHANGED <<rlVars, clientVars>>
    /\ Len(conns) < MaxConns
    /\ conns' = Append(conns, DialConn)
    /\ UNCHANGED <<dbVars, editingEnabled, apiKeySet, reqs, lastSave, resp>>

\* The process is stopped and main runs again: the environment is read anew,
\* database.New opens a new pool on the same file, requests in flight are gone.
Restart(editing, key) ==
    /\ UNCHANGED <<rlVars, clientVars>>
    /\ editingEnabled' = editing
    /\ apiKeySet' = key
    /\ conns' = NewPool
    /\ reqs' = [s \in ReqIds |-> Idle]
    /\ resp' = NoResp
    /\ UNCHANGED <<dbVars, lastSave>>

RLInit ==
    /\ rl = [requests |-> << >>, window |-> 0, limit |-> 0]
    /\ now = 0
    /\ mu = 0
    /\ procs = << >>
    /\ admitted = << >>

ClientInit ==
    /\ client = [pc |-> "idle"]
    /\ net = << >>

Init ==
    /\ groups = << >>
    /\ artworks = << >>
    /\ nextGroupId = 1
    /\ nextArtworkId = 1
    /\ schema = Migrated
    /\ conns = NewPool
    /\ editingEnabled \in BOOLEAN
    /\ apiKeySet \in BOOLEAN
    /\ reqs = [s \in ReqIds |-> Idle]
    /\ lastSave = << >>
    /\ resp = NoResp
    /\ RLInit
    /\ ClientInit

\* Requests the model sends.  A body is <<decodes, fields...>>.
GroupBodies ==
    { <<FALSE, "", "", "">>, <<TRUE, "", "p1", "c">>, <<TRUE, "t", "", "c">>,
      <<TRUE, "t", "p1", "c">>, <<TRUE, "t", "p2", "c">> }
ArtworkBodies ==
    { <<FALSE, 0, "", 0, 0>>, <<TRUE, 0, "mA", 7, 50000>>, <<TRUE, 1, "", 7, 50000>>,
      <<TRUE, 1, "mA", 7, 50000>>, <<TRUE, 1, "mB", 15, 0>> }
ParamBodies == { <<FALSE, 0, 0>>, <<TRUE, 7, 50000>>, <<TRUE, 15, 0>> }
GenerateBodies ==
    { <<FALSE, "", "", 0, 0>>, <<TRUE, "", "mA", 7, 50000>>, <<TRUE, "p1", "", 7, 50000>>,
      <<TRUE, "p1", "mA", 15, 50000>>, <<TRUE, "p1", "mA", 7, 0>>,
      <<TRUE, "p1", "mA", 7, 50000>> }

\* The id path segments requests carry: not a number, or a row id.
IdStrs(n) == {NaN} \cup (1..n)

\* Rows inserted so far stay within g groups and a artworks.
Within(g, a) == nextGroupId' <= g + 1 /\ nextArtworkId' <= a + 1

\* A step of the server alone.
ServerOnly == UNCHANGED <<rlVars, clientVars>>

CreateGroupRequest ==
    \E b \in GroupBodies :
        /\ CreateGroupHandler(b[1], b[2], b[3], b[4])
        /\ Within(MaxGroups, MaxArtworks)
        /\ ServerOnly
UpdateGroupRequest ==
    \E i \in IdStrs(MaxGroups), b \in GroupBodies :
        UpdateGroupHandler(i, b[1], b[2], b[3], b[4]) /\ ServerOnly
DeleteGroupRequest ==
    \E i \in IdStrs(MaxGroups) : DeleteGroupHandler(i) /\ ServerOnly
UploadOriginalArtworkRequest ==
    \E i \in IdStrs(MaxGroups), ok \in BOOLEAN :
        UploadOriginalArtworkHandler(i, ok) /\ ServerOnly
CreateArtworkRequest ==
    \E b \in ArtworkBodies :
        /\ CreateArtworkHandler(b[1], b[2], b[3], b[4], b[5])
        /\ Within(MaxGroups, MaxArtworks)
        /\ ServerOnly
UpdateArtworkRequest ==
    \E i \in IdStrs(MaxArtworks), b \in ParamBodies :
        UpdateArtworkHandler(i, b[1], b[2], b[3]) /\ ServerOnly
DeleteArtworkRequest ==
    \E i \in IdStrs(MaxArtworks) : DeleteArtworkHandler(i) /\ ServerOnly
SetFeaturedArtworkRequest ==
    \E i \in IdStrs(MaxArtworks) : SetFeaturedArtworkHandler(i) /\ ServerOnly
GenerateRequest ==
    \E mok \in BOOLEAN, b \in GenerateBodies :
        GenerateHandler(1, mok, b[1], b[2], b[3], b[4], b[5]) /\ ServerOnly
GenerateReturn ==
    \E r \in ApiResponses : GenerateHandlerReturn(1, r) /\ ServerOnly
GenerateArtworkRequest ==
    \E mok \in BOOLEAN, ok \in BOOLEAN, a \in {0} \cup (1..MaxArtworks) :
        GenerateArtworkHandler(1, mok, ok, a) /\ ServerOnly
GenerateArtworkPost ==
    GenerateArtworkCall(1) /\ ServerOnly
GenerateArtworkFinish ==
    \E r \in ApiResponses : GenerateArtworkReturn(1, r) /\ ServerOnly
RestartProcess ==
    \E e \in BOOLEAN, k \in BOOLEAN : Restart(e, k)

Next ==
    \/ CreateGroupRequest
    \/ UpdateGroupRequest
    \/ DeleteGroupRequest
    \/ UploadOriginalArtworkRequest
    \/ CreateArtworkRequest
    \/ UpdateArtworkRequest
    \/ DeleteArtworkRequest
    \/ SetFeaturedArtworkRequest
    \/ GenerateRequest
    \/ GenerateReturn
    \/ GenerateArtworkRequest
    \/ GenerateArtworkPost
    \/ GenerateArtworkFinish
    \/ OpenConn
    \/ RestartProcess

Spec == Init /\ [][Next]_vars

---------------------------------------------------------------------------
(* Properties of the server.                                                *)

\* C1: a request through GenerateArtworkHandler whose generation call fails
\* (missing API key, transport failure, non-200 status, unparseable body,
\* API error object, zero choices) leaves every stored artwork, its SVG
\* included, exactly as it was, and SaveArtworkSVG is not invoked.
C1_FailedGenerationWritesNothing ==
    [][\A s \in ReqIds :
          ( /\ InFlight(s)
            /\ reqs'[s].pc = "idle"
            /\ resp'.op = "GenerateArtwork"
            /\ resp'.err \in GenerationErrors )
          => (artworks' = artworks /\ lastSave' = lastSave)]_vars

\* A populated artwork still holds the SVG last saved on it after a
\* regenerate that failed with an API-level error object.
C1_PopulatedKeptAfterFailure ==
    /\ resp.op = "GenerateArtwork"
    /\ resp.err = "OpenRouter API error"
    /\ 1 \in DOMAIN artworks
    /\ 1 \in DOMAIN lastSave
    /\ artworks[1].svg # EmptySVG
    /\ artworks[1].svg = lastSave[1].svg

\* C2: a DeleteGroup that succeeds leaves no artwork whose group id is the
\* deleted group's.
C2_DeleteGroupCascades ==
    [][\A g \in (DOMAIN groups) \ (DOMAIN groups') :
          \A a \in DOMAIN artworks' : artworks'[a].group_id # g]_vars

\* C3: every persisted artwork's group id is the id of an existing group.
C3_ArtworkGroupExists ==
    \A a \in DOMAIN artworks : artworks[a].group_id \in DOMAIN groups

\* The requests that ask for a mutation: each mutating handler invoked for
\* the operation it serves (POST for the two generate handlers, which check
\* the method themselves).
MutatingRequest ==
    \/ CreateGroupRequest
    \/ UpdateGroupRequest
    \/ DeleteGroupRequest
    \/ UploadOriginalArtworkRequest
    \/ CreateArtworkRequest
    \/ UpdateArtworkRequest
    \/ DeleteArtworkRequest
    \/ SetFeaturedArtworkRequest
    \/ \E b \in GenerateBodies : GenerateHandler(1, TRUE, b[1], b[2], b[3], b[4], b[5])
    \/ \E ok \in BOOLEAN, a \in {0} \cup (1..MaxArtworks) :
         GenerateArtworkHandler(1, TRUE, ok, a)

\* C4: while the editing flag is off no step changes the persisted tables,
\* and every mutating request is answered 403 whatever it carries (so before
\* its id or body is looked at and before any storage or API call), with no
\* generation started.
C4_EditingDisabledRejects ==
    [][~editingEnabled =>
          /\ UNCHANGED <<dbVars, lastSave>>
          /\ MutatingRequest => (resp'.status = 403 /\ UNCHANGED reqs)]_vars

\* With editing off and a group, an artwork and a stored SVG in the
\* database, a delete-group request has just been answered 403.
C4_RejectedWithData ==
    /\ ~editingEnabled
    /\ resp.op = "DeleteGroup"
    /\ resp.status = 403
    /\ 1 \in DOMAIN groups
    /\ 1 \in DOMAIN artworks
    /\ artworks[1].svg # EmptySVG

C10_AtMostOneRequest ==
    /\ \A s \in ReqIds :
          reqs[s].pc \in {"waiting", "direct"} => (apiKeySet /\ reqs[s].sent = 1)
    /\ resp.op \in {"Generate", "GenerateArtwork"} =>
          /\ resp.sent \in {0, 1}
          /\ resp.err = NoKeyError => resp.sent = 0
          /\ (resp.status = 200 \/ resp.err \in GenerationErrors \ {NoKeyError}) =>
                resp.sent = 1

\* A generation has failed on a non-200 status after posting one request.
C10_OneRequestThenFailure ==
    /\ resp.op = "GenerateArtwork"
    /\ resp.err = "OpenRouter API returned status"
    /\ resp.sent = 1

---------------------------------------------------------------------------
(* Concurrent generation: MaxReqs requests at once on one group's artwork,  *)
(* editing enabled and the API key set.                                     *)

ConcInit ==
    /\ Init
    /\ editingEnabled
    /\ apiKeySet

ConcCreateGroup ==
    /\ CreateGroupHandler(TRUE, "t", "p1", "c")
    /\ Within(MaxGroups, MaxArtworks)
    /\ ServerOnly
ConcCreateArtwork ==
    /\ CreateArtworkHandler(TRUE, 1, "mA", 7, 50000)
    /\ Within(MaxGroups, MaxArtworks)
    /\ ServerOnly
ConcGenerate ==
    \E s \in ReqIds, a \in 1..MaxArtworks :
        GenerateArtworkHandler(s, TRUE, TRUE, a) /\ ServerOnly
ConcCall ==
    \E s \in ReqIds : GenerateArtworkCall(s) /\ ServerOnly
ConcReturn ==
    \E s \in ReqIds, r \in ApiResponses : GenerateArtworkReturn(s, r) /\ ServerOnly
ConcDeleteArtwork ==
    \E a \in 1..MaxArtworks : DeleteArtworkHandler(a) /\ ServerOnly

ConcNext ==
    \/ ConcCreateGroup
    \/ ConcCreateArtwork
    \/ ConcGenerate
    \/ ConcCall
    \/ ConcReturn
    \/ ConcDeleteArtwork

SpecConc == ConcInit /\ [][ConcNext]_vars

\* C5: whatever the interleaving of generate requests, an artwork's stored
\* SVG is in full the argument of the SaveArtworkSVG call that ran last on
\* it (empty if none ran): never a merge, never a text no request produced.
C5_LastSaveWins ==
    \A a \in DOMAIN artworks :
        IF a \in DOMAIN lastSave
        THEN artworks[a].svg = lastSave[a].svg
        ELSE artworks[a].svg = EmptySVG

\* Two generate requests for artwork 1 overlapped and both succeeded with
\* different SVGs: the one that saved last was in flight when the other
\* stored its text, and the artwork holds the text of the last one.
C5_BothSucceededOverlapping ==
    /\ \A s \in ReqIds : reqs[s].pc = "idle"
    /\ 1 \in DOMAIN artworks
    /\ 1 \in DOMAIN lastSave
    /\ lastSave[1].over \notin {NoSave, lastSave[1].svg}
    /\ artworks[1].svg = lastSave[1].svg
    /\ resp.status = 200
    /\ resp.svg = artworks[1].svg

---------------------------------------------------------------------------
(* Rate limiter: main.go.  Time is in ticks, Minute ticks to time.Minute.   *)

Minute  == 2     \* ticks per minute
MaxTime == 3     \* the clock stops advancing here
Limit   == 100   \* main: NewRateLimiter(time.Minute, 100)

Keys == {"ip1", "ip2"}

NewRateLimiter(window, limit) ==
    [requests |-> << >>, window |-> window, limit |-> limit]

\* time.Time.After
After(t, u) == t > u

\* rl.requests[key] of a Go map: the zero value (nil slice) for a missing key.
RequestsOf(m, key) == IF key \in DOMAIN m THEN m[key] ELSE << >>

\* Allow, the pruning loop: validRequests.
ValidRequests(requests, windowStart) ==
    SelectSeq(requests, LAMBDA req : After(req, windowStart))

\* Allow, "if requests, exists := rl.requests[key]; exists { ... }".
Pruned(m, key, t) ==
    IF key \in DOMAIN m
    THEN [m EXCEPT ![key] = ValidRequests(m[key], t - rl.window)]
    ELSE m

\* A check that admits one request more.
UnderLimitInclusive(m, key) == Len(RequestsOf(m, key)) <= rl.limit

\* Allow, "len(rl.requests[key]) < rl.limit".
UnderLimit(m, key) == Len(RequestsOf(m, key)) < rl.limit

\* An append that writes the timestamp under every key.
AppendedEvery(m, key, t) ==
    [k \in DOMAIN m \cup {key} |-> Append(RequestsOf(m, k), t)]

\* Allow, "rl.requests[key] = append(rl.requests[key], now)".
Appended(m, key, t) == (key :> Append(RequestsOf(m, key), t)) @@ m

\* Allow(key) called at time t on the map m, run from Lock to Unlock.
Allow(m, key, t) ==
    LET pr == Pruned(m, key, t)
    IN  IF UnderLimit(pr, key)
        THEN [ok |-> TRUE, requests |-> Appended(pr, key, t)]
        ELSE [ok |-> FALSE, requests |-> pr]

\* History: t is recorded as admitted for key; admitted keeps the timestamps
\* less than one window old.
InWindow(t, clock) == t + Minute > clock
Admit(key, t) ==
    [admitted EXCEPT ![key] =
        SelectSeq(Append(@, t), LAMBDA u : InWindow(u, now))]

\* The handler Middleware wraps: GET /api/models, which touches no state.
ListModelsHandler == Respond("ListModels", 200)

\* Middleware(next) serving a request of client key, next = ListModelsHandler.
Middleware(key) ==
    /\ mu = 0
    /\ LET a == Allow(rl.requests, key, now)
       IN  /\ rl' = [rl EXCEPT !.requests = a.requests]
           /\ IF ~a.ok
              THEN Respond("Middleware", 429) /\ UNCHANGED admitted
              ELSE ListModelsHandler /\ admitted' = Admit(key, now)
    /\ UNCHANGED <<dbVars, conns, editingEnabled, apiKeySet, reqs, lastSave>>
    /\ UNCHANGED <<now, mu, procs, clientVars>>

\* The clock advances.
Tick ==
    /\ now < MaxTime
    /\ now' = now + 1
    /\ admitted' = [k \in DOMAIN admitted |->
                      SelectSeq(admitted[k], LAMBDA u : InWindow(u, now + 1))]
    /\ UNCHANGED <<serverVars, rl, mu, procs, clientVars>>

RLServe == \E key \in {"ip1"} : Middleware(key)

RLInitAt(limit) ==
    /\ groups = << >>
    /\ artworks = << >>
    /\ nextGroupId = 1
    /\ nextArtworkId = 1
    /\ schema = Migrated
    /\ conns = NewPool
    /\ editingEnabled = FALSE
    /\ apiKeySet = FALSE
    /\ reqs = [s \in ReqIds |-> Idle]
    /\ lastSave = << >>
    /\ resp = NoResp
    /\ rl = NewRateLimiter(Minute, limit)
    /\ now = 0
    /\ mu = 0
    /\ admitted = [k \in Keys |-> << >>]
    /\ ClientInit

RLSeqInit == RLInitAt(Limit) /\ procs = << >>

RLSeqNext ==
    \/ RLServe
    \/ Tick

SpecRL == RLSeqInit /\ [][RLSeqNext]_vars

\* C6: with window one minute and limit 100, a request of a key that has
\* 100 requests admitted within the window ending now is answered 429 and
\* the wrapped handler is not invoked; a request of a key with fewer is
\* passed to the handler and recorded; in particular one arriving when every
\* recorded request is a full window old is admitted again.
C6_LimitThenWindow ==
    [][\A key \in Keys :
          Middleware(key) =>
            /\ IF Len(admitted[key]) >= 100
               THEN /\ resp'.op = "Middleware"
                    /\ resp'.status = 429
                    /\ admitted' = admitted
               ELSE /\ resp'.op = "ListModels"
                    /\ resp'.status = 200
                    /\ admitted'[key] = Append(admitted[key], now)
            /\ (\A i \in DOMAIN RequestsOf(rl.requests, key) :
                    RequestsOf(rl.requests, key)[i] + Minute <= now)
                => resp'.op = "ListModels"]_vars

\* Key ip1 had 100 requests admitted and the 101st answered 429, and the
\* window has since elapsed: none of the 100 is on the window any longer.
C6_RejectedThenElapsed ==
    /\ resp.op = "Middleware"
    /\ resp.status = 429
    /\ Len(RequestsOf(rl.requests, "ip1")) = 100
    /\ admitted["ip1"] = << >>
    /\ now >= Minute

---------------------------------------------------------------------------
(* Concurrent Allow: MaxProcs goroutines, each serving one request at a     *)
(* time through Middleware, statement by statement.                         *)

MaxProcs   == 2     \* goroutines inside Middleware at once
SmallLimit == 2     \* rl.limit of the limiter under SpecRLConc

ProcIds == 1..MaxProcs

\* A lock that never blocks.
UnlockedAlways == TRUE

\* rl.mu.Lock() returns only when no goroutine holds the mutex.
Unlocked == mu = 0

InAllow(p) == procs[p].pc \in {"prune", "check", "append", "return"}

\* Middleware: clientIP := getClientIP(r); rl.Allow(clientIP) is called.
AllowCall(p, key) ==
    /\ procs[p].pc = "idle"
    /\ procs' = [procs EXCEPT ![p] = [pc |-> "lock", key |-> key]]
    /\ UNCHANGED <<serverVars, rl, now, mu, admitted, clientVars>>

\* rl.mu.Lock(); now := time.Now()
AllowLock(p) ==
    /\ procs[p].pc = "lock"
    /\ Unlocked
    /\ mu' = p
    /\ procs' = [procs EXCEPT ![p] = [pc |-> "prune", key |-> procs[p].key, now |-> now]]
    /\ UNCHANGED <<serverVars, rl, now, admitted, clientVars>>

AllowPrune(p) ==
    /\ procs[p].pc = "prune"
    /\ rl' = [rl EXCEPT !.requests = Pruned(rl.requests, procs[p].key, procs[p].now)]
    /\ procs' = [procs EXCEPT ![p].pc = "check"]
    /\ UNCHANGED <<serverVars, now, mu, admitted, clientVars>>

AllowCheck(p) ==
    /\ procs[p].pc = "check"
    /\ procs' = [procs EXCEPT ![p] =
                    IF UnderLimit(rl.requests, procs[p].key)
                    THEN [pc |-> "append", key |-> procs[p].key, now |-> procs[p].now]
                    ELSE [pc |-> "return", key |-> procs[p].key, ok |-> FALSE]]
    /\ UNCHANGED <<serverVars, rl, now, mu, admitted, clientVars>>

AllowAppend(p) ==
    /\ procs[p].pc = "append"
    /\ rl' = [rl EXCEPT !.requests = Appended(rl.requests, procs[p].key, procs[p].now)]
    /\ admitted' = Admit(procs[p].key, procs[p].now)
    /\ procs' = [procs EXCEPT ![p] = [pc |-> "return", key |-> procs[p].key, ok |-> TRUE]]
    /\ UNCHANGED <<serverVars, now, mu, clientVars>>

\* The deferred rl.mu.Unlock(), Allow returns, and Middleware answers 429
\* or calls next.
AllowReturn(p) ==
    /\ procs[p].pc = "return"
    /\ mu' = 0
    /\ procs' = [procs EXCEPT ![p] = [pc |-> "idle"]]
    /\ IF ~procs[p].ok THEN Respond("Middleware", 429) ELSE ListModelsHandler
    /\ UNCHANGED <<dbVars, conns, editingEnabled, apiKeySet, reqs, lastSave>>
    /\ UNCHANGED <<rl, now, admitted, clientVars>>

RLConcInit ==
    /\ RLInitAt(SmallLimit)
    /\ procs = [p \in ProcIds |-> [pc |-> "idle"]]

RLCall    == \E p \in ProcIds, key \in Keys : AllowCall(p, key)
RLLock    == \E p \in ProcIds : AllowLock(p)
RLPrune   == \E p \in ProcIds : AllowPrune(p)
RLCheck   == \E p \in ProcIds : AllowCheck(p)
RLAppend  == \E p \in ProcIds : AllowAppend(p)
RLReturn  == \E p \in ProcIds : AllowReturn(p)

RLConcNext ==
    \/ RLCall
    \/ RLLock
    \/ RLPrune
    \/ RLCheck
    \/ RLAppend
    \/ RLReturn
    \/ Tick

SpecRLConc == RLConcInit /\ [][RLConcNext]_vars

\* Occurrences of t in the sequence q.
Count(q, t) == Cardinality({i \in DOMAIN q : q[i] = t})

\* C7: under any interleaving of Allow calls at most one goroutine is between
\* Lock and Unlock, the requests admitted for a key within one window never
\* exceed the limit, and every admitted timestamp still on the window is in
\* the key's list.
C7_AllowAtomic ==
    /\ Cardinality({p \in ProcIds : InAllow(p)}) <= 1
    /\ \A p \in ProcIds : InAllow(p) => mu = p
    /\ \A key \in Keys :
          /\ Len(admitted[key]) <= rl.limit
          /\ \A t \in 0..MaxTime :
                Count(admitted[key], t) <= Count(RequestsOf(rl.requests, key), t)

\* Two goroutines serve requests of ip1 at once: one holds the lock and has
\* just been refused because the window is full, the other waits in Lock.
C7_ContendedAtLimit ==
    /\ procs[1].pc = "return"
    /\ ~procs[1].ok
    /\ procs[2].pc = "lock"
    /\ procs[1].key = "ip1"
    /\ procs[2].key = "ip1"
    /\ Len(admitted["ip1"]) = rl.limit

---------------------------------------------------------------------------
(* Workshop client: static/js/modules/state.js, addModel, against the       *)
(* server's CreateGroupHandler and CreateArtworkHandler.                    *)

MaxSends == 3     \* API requests the client sends

FormTitles  == {"", " ", "t", " t"}
FormPrompts == {"", " ", "p1"}

\* A validation that does not trim.
trimNone(s) == s

\* String.prototype.trim, on the texts a form field of the model can hold.
trim(s) ==
    CASE s = " "  -> ""
      [] s = " t" -> "t"
      [] OTHER    -> s

\* createInitialState, with currentGroup = 0 for null; pc is the await
\* addModel is suspended at.
createInitialState ==
    [pc |-> "idle", currentGroup |-> 0, toast |-> "",
     formData |-> [title |-> "t", prompt |-> "p1", category |-> "c"]]

\* fetch's Response.ok
ResponseOk(status) == status \in 200..299

\* The user edits the group form.
UpdateForm(title, prompt) ==
    /\ client.pc = "idle"
    /\ client' = [client EXCEPT !.formData.title = title, !.formData.prompt = prompt]
    /\ UNCHANGED <<serverVars, rlVars, net>>

\* addModel(model) up to its first await.
addModel(model) ==
    /\ client.pc = "idle"
    /\ Len(net) < MaxSends
    /\ UNCHANGED <<serverVars, rlVars>>
    /\ IF client.currentGroup # 0
       THEN /\ net' = Append(net, [kind |-> "createArtwork", model |-> model,
                                   group_id |-> client.currentGroup])
            /\ client' = [client EXCEPT !.pc = "createArtwork"]
       ELSE IF trim(client.formData.title) = "" \/ trim(client.formData.prompt) = ""
       THEN /\ client' = [client EXCEPT !.toast =
                            "Please enter a title and prompt before adding models"]
            /\ UNCHANGED net
       ELSE /\ net' = Append(net, [kind |-> "createGroup", model |-> model,
                                   title |-> trim(client.formData.title),
                                   prompt |-> trim(client.formData.prompt),
                                   category |-> trim(client.formData.category)])
            /\ client' = [client EXCEPT !.pc = "createGroup"]

\* The server handles the createGroup request and "await api.createGroup"
\* settles: on an ok response the group becomes currentGroup and addModel
\* goes on to post the artwork with the new id; otherwise (an error status,
\* or the response lost on the way) it shows the error and returns.
addModelGroupSettled(lost) ==
    /\ client.pc = "createGroup"
    /\ LET req == net[Len(net)]
       IN  /\ CreateGroupHandler(TRUE, req.title, req.prompt, req.category)
           /\ Within(MaxGroups, MaxArtworks)
           /\ IF ResponseOk(resp'.status) /\ ~lost
              THEN /\ client' = [client EXCEPT !.pc = "createArtwork",
                                               !.currentGroup = resp'.id,
                                               !.toast = "Group saved"]
                   /\ net' = Append(net, [kind |-> "createArtwork", model |-> req.model,
                                          group_id |-> resp'.id])
              ELSE /\ client' = [client EXCEPT !.pc = "idle",
                                               !.toast = "Failed to save group"]
                   /\ UNCHANGED net
    /\ UNCHANGED rlVars

\* fetch rejects and the request never reached the server.
addModelGroupUnsent ==
    /\ client.pc = "createGroup"
    /\ client' = [client EXCEPT !.pc = "idle", !.toast = "Failed to save group"]
    /\ UNCHANGED <<serverVars, rlVars, net>>

\* The server handles the createArtwork request and "await
\* api.createArtwork" settles.
addModelArtworkSettled(lost) ==
    /\ client.pc = "createArtwork"
    /\ LET req == net[Len(net)]
       IN  /\ CreateArtworkHandler(TRUE, req.group_id, req.model, 7, 50000)
           /\ Within(MaxGroups, MaxArtworks)
           /\ client' = [client EXCEPT !.pc = "idle",
                            !.toast = IF ResponseOk(resp'.status) /\ ~lost
                                      THEN "Added" ELSE "Failed to add model"]
    /\ UNCHANGED <<rlVars, net>>

addModelArtworkUnsent ==
    /\ client.pc = "createArtwork"
    /\ client' = [client EXCEPT !.pc = "idle", !.toast = "Failed to add model"]
    /\ UNCHANGED <<serverVars, rlVars, net>>

\* Some other client posts an artwork whose body names no group: Go decodes
\* the missing group_id as 0.
PostArtworkWithoutGroup ==
    /\ \E m \in {"mA"} : CreateArtworkHandler(TRUE, 0, m, 7, 50000)
    /\ ServerOnly

ClientSpecInit ==
    /\ groups = << >>
    /\ artworks = << >>
    /\ nextGroupId = 1
    /\ nextArtworkId = 1
    /\ schema = Migrated
    /\ conns = NewPool
    /\ editingEnabled \in BOOLEAN
    /\ apiKeySet = FALSE
    /\ reqs = [s \in ReqIds |-> Idle]
    /\ lastSave = << >>
    /\ resp = NoResp
    /\ RLInit
    /\ client = createInitialState
    /\ net = << >>

EditForm        == \E t \in FormTitles, p \in FormPrompts : UpdateForm(t, p)
ClickAddModel   == \E m \in {"mA", "mB"} : addModel(m)
GroupSettled    == \E lost \in BOOLEAN : addModelGroupSettled(lost)
ArtworkSettled  == \E lost \in BOOLEAN : addModelArtworkSettled(lost)

ClientNext ==
    \/ EditForm
    \/ ClickAddModel
    \/ GroupSettled
    \/ addModelGroupUnsent
    \/ ArtworkSettled
    \/ addModelArtworkUnsent
    \/ PostArtworkWithoutGroup

SpecClient == ClientSpecInit /\ [][ClientNext]_vars

\* C9: the workshop posts an artwork only for a group that exists: every
\* createArtwork request it sends names a group id the server has already
\* created; on the first model of an unsaved group the createGroup request
\* is answered 201 first and the artwork request carries the id of that
\* response; a failed group creation, or a title or prompt that is empty or
\* blank, sends no artwork request; and the server rejects an artwork
\* request without group id (400, or 403 while editing is off) and stores
\* nothing.
C9_GroupBeforeArtwork ==
    [][/\ \A i \in DOMAIN net' :
             net'[i].kind = "createArtwork" =>
                /\ net'[i].group_id \in 1..(nextGroupId' - 1)
                /\ \E j \in 1..(i - 1) : net'[j].kind = "createGroup"
       /\ (client.pc = "createGroup" /\ client'.pc = "createArtwork") =>
             /\ resp'.op = "CreateGroup"
             /\ resp'.status = 201
             /\ resp'.id \in (DOMAIN groups') \ (DOMAIN groups)
             /\ net' = Append(net, [kind |-> "createArtwork",
                                    model |-> net[Len(net)].model,
                                    group_id |-> resp'.id])
       /\ (client.pc = "createGroup" /\ client'.pc = "idle") => net' = net
       /\ ( /\ client.pc = "idle"
            /\ client.currentGroup = 0
            /\ \/ client.formData.title \in {"", " "}
               \/ client.formData.prompt \in {"", " "} ) => net' = net
       /\ PostArtworkWithoutGroup =>
             /\ resp'.op = "CreateArtwork"
             /\ resp'.status = IF editingEnabled THEN 400 ELSE 403
             /\ artworks' = artworks
      ]_vars

\* The first model was added to an unsaved group: the client sent
\* createGroup, then createArtwork with the id of the created group, and the
\* stored artwork belongs to that group.
C9_ArtworkAfterGroup ==
    /\ Len(net) = 2
    /\ net[1].kind = "createGroup"
    /\ net[2].kind = "createArtwork"
    /\ net[2].group_id = 1
    /\ client.pc = "idle"
    /\ client.toast = "Added"
    /\ 1 \in DOMAIN artworks
    /\ artworks[1].group_id = 1
    /\ 1 \in DOMAIN groups

---------------------------------------------------------------------------
(* Properties of a successful generation.                                   *)

\* C11: when GenerateArtworkHandler answers 200 for an artwork, the SVG
\* stored on that artwork is non-empty and is exactly the SVG the response
\* carries.
C11_SuccessStoresNonEmpty ==
    [][\A s \in ReqIds :
          ( /\ reqs[s].pc = "waiting"
            /\ reqs'[s].pc = "idle"
            /\ resp'.op = "GenerateArtwork"
            /\ resp'.status = 200 )
          => /\ resp'.id \in DOMAIN artworks'
             /\ artworks'[resp'.id].svg # EmptySVG
             /\ artworks'[resp'.id].svg = resp'.svg]_vars

\* C12: the SVG a successful generation stores has no surrounding
\* whitespace and no enclosing code fence, plain or tagged svg.
C12_StoredWithoutFence ==
    [][\A s \in ReqIds :
          ( /\ reqs[s].pc = "waiting"
            /\ reqs'[s].pc = "idle"
            /\ resp'.op = "GenerateArtwork"
            /\ resp'.status = 200
            /\ resp'.svg # EmptySVG )
          => LET svg == artworks'[resp'.id].svg
             IN  /\ Head(svg) \notin Whitespace \cup {"~~~", "~~~svg"}
                 /\ svg[Len(svg)] \notin Whitespace \cup {"~~~"}]_vars

---------------------------------------------------------------------------
(* Validation at the handlers.                                              *)

\* C13: every stored group has a non-empty title and a non-empty prompt,
\* and a create or update request whose title or prompt is empty is
\* answered 400 and leaves the groups as they were.
C13_GroupsHaveTitleAndPrompt ==
    /\ [](\A g \in DOMAIN groups : groups[g].title # "" /\ groups[g].prompt # "")
    /\ [][\A b \in GroupBodies :
            (isEditingEnabled /\ (b[2] = "" \/ b[3] = "")) =>
               /\ CreateGroupHandler(b[1], b[2], b[3], b[4]) =>
                     (resp'.status = 400 /\ UNCHANGED groups)
               /\ \A id \in 1..MaxGroups :
                     UpdateGroupHandler(id, b[1], b[2], b[3], b[4]) =>
                        (resp'.status = 400 /\ UNCHANGED groups)]_vars

\* A stored group whose prompt an update replaced is still whole after an
\* update request was answered 400.
C13_UpdateRejectedGroupKept ==
    /\ resp.op = "UpdateGroup"
    /\ resp.status = 400
    /\ 1 \in DOMAIN groups
    /\ groups[1].title = "t"
    /\ groups[1].prompt = "p2"

\* C14: every stored artwork has a temperature within the range
\* GenerateHandler accepts, 0 to 1 (temperatures are in tenths), and a
\* positive max-tokens.
C14_StoredParamsValid ==
    \A a \in DOMAIN artworks :
        /\ artworks[a].temperature \in 0..10
        /\ artworks[a].max_tokens > 0

---------------------------------------------------------------------------
(* Effects of the store's mutations.                                        *)

\* C15: in every reachable store, UpdateGroup, DeleteGroup, UpdateArtwork,
\* SaveArtworkSVG and DeleteArtwork applied to an id with no row return an
\* error and tables equal to the ones they were given; and a handler that
\* answers 500 for such a call has changed neither table.
C15_MissingIdNotFound ==
    /\ [](\A id \in 1..(MaxGroups + MaxArtworks + 1) :
            /\ id \notin DOMAIN groups =>
                  /\ \A b \in GroupBodies :
                        LET r == UpdateGroup(id, [title |-> b[2], prompt |-> b[3],
                                                  category |-> b[4]])
                        IN  r.err /\ r.groups = groups
                  /\ \A fk \in BOOLEAN :
                        LET r == DeleteGroup(fk, id)
                        IN  r.err /\ r.groups = groups /\ r.artworks = artworks
            /\ id \notin DOMAIN artworks =>
                  /\ \A b \in ParamBodies :
                        LET r == UpdateArtwork(id, b[2], b[3])
                        IN  r.err /\ r.artworks = artworks
                  /\ \A c \in RawContents :
                        LET r == SaveArtworkSVG(id, c)
                        IN  r.err /\ r.artworks = artworks
                  /\ LET r == DeleteArtwork(id)
                     IN  r.err /\ r.artworks = artworks)
    /\ [][( \/ resp'.op \in {"UpdateGroup", "DeleteGroup", "UpdateArtwork",
                            "DeleteArtwork"} /\ resp'.status = 500
            \/ resp'.op = "GenerateArtwork" /\ resp'.err = "Failed to save SVG" )
          => UNCHANGED <<groups, artworks>>]_vars

\* A generation that was in flight when its artwork was deleted has ended
\* with the save failing, the group still stored.
C15_SaveOnDeletedArtwork ==
    /\ resp.op = "GenerateArtwork"
    /\ resp.err = "Failed to save SVG"
    /\ artworks = << >>
    /\ 1 \in DOMAIN groups

---------------------------------------------------------------------------
(* The store with several groups and artworks: the mutating handlers of     *)
(* internal/api with editing on, one generation at a time.                  *)

MaxStoreGroups   == 2
MaxStoreArtworks == 2

StoreGroupBodies == { <<"t", "p1", "c">> }
StoreParams      == { <<15, 0>> }
StoreModels      == { "mA", "mB" }
StoreResponses   ==
    { r \in ApiResponses :
        /\ ReadResponse(r).err = ""
        /\ r.choices = << <<" ", "<", "b", ">", "\n">> >> }

StoreInit == Init /\ editingEnabled /\ apiKeySet

StoreCreateGroup ==
    /\ \E b \in StoreGroupBodies : CreateGroupHandler(TRUE, b[1], b[2], b[3])
    /\ Within(MaxStoreGroups, MaxStoreArtworks)
    /\ ServerOnly
StoreDeleteGroup ==
    /\ \E id \in 1..MaxStoreGroups : DeleteGroupHandler(id)
    /\ ServerOnly
StoreCreateArtwork ==
    /\ \E g \in 1..MaxStoreGroups, m \in StoreModels :
          CreateArtworkHandler(TRUE, g, m, 7, 50000)
    /\ Within(MaxStoreGroups, MaxStoreArtworks)
    /\ ServerOnly
StoreUpdateArtwork ==
    /\ \E id \in 1..MaxStoreArtworks, b \in StoreParams :
          UpdateArtworkHandler(id, TRUE, b[1], b[2])
    /\ ServerOnly
StoreDeleteArtwork ==
    /\ \E id \in 1..MaxStoreArtworks : DeleteArtworkHandler(id)
    /\ ServerOnly
StoreGenerate ==
    /\ \E a \in 1..MaxStoreArtworks : GenerateArtworkHandler(1, TRUE, TRUE, a)
    /\ ServerOnly
StoreGenerateCall == GenerateArtworkCall(1) /\ ServerOnly
StoreGenerateReturn ==
    /\ \E r \in StoreResponses : GenerateArtworkReturn(1, r)
    /\ ServerOnly

StoreNext ==
    \/ StoreCreateGroup
    \/ StoreDeleteGroup
    \/ StoreCreateArtwork
    \/ StoreUpdateArtwork
    \/ StoreDeleteArtwork
    \/ StoreGenerate
    \/ StoreGenerateCall
    \/ StoreGenerateReturn
    \/ OpenConn

SpecStore == StoreInit /\ [][StoreNext]_vars

\* C16: a parameter update that succeeds changes the temperature and
\* max-tokens of one artwork and nothing else, and a generation that
\* succeeds changes the svg of its artwork and nothing else: model, group
\* id and the other field of that artwork, every other artwork and every
\* group stay as they were.
C16_UpdatesTouchOnlyTheirFields ==
    [][/\ (resp'.op = "UpdateArtwork" /\ resp'.status = 200) =>
            /\ groups' = groups
            /\ \E id \in DOMAIN artworks :
                  artworks' = [artworks EXCEPT
                                  ![id].temperature = artworks'[id].temperature,
                                  ![id].max_tokens = artworks'[id].max_tokens]
       /\ (resp'.op = "GenerateArtwork" /\ resp'.status = 200) =>
            /\ groups' = groups
            /\ resp'.id \in DOMAIN artworks
            /\ artworks' = [artworks EXCEPT ![resp'.id].svg = resp'.svg]]_vars

\* Of two artworks, the one with a stored SVG has just had its parameters
\* updated: it keeps the SVG and the other keeps its parameters.
C16_ParamsUpdatedBesideSVG ==
    /\ resp.op = "UpdateArtwork"
    /\ resp.status = 200
    /\ {1, 2} \subseteq DOMAIN artworks
    /\ artworks[1].svg = <<"<", "b", ">">>
    /\ artworks[1].temperature = 15
    /\ artworks[2].temperature = 7
    /\ artworks[2].svg = EmptySVG

\* C17: a delete-artwork request never changes a group: whatever it
\* answers the groups are as before, and when it succeeds exactly one
\* artwork is gone and the others are as before.
C17_DeleteArtworkKeepsGroup ==
    [][\A idStr \in IdStrs(MaxStoreArtworks) :
          DeleteArtworkHandler(idStr) =>
             /\ groups' = groups
             /\ IF resp'.status = 200
                THEN /\ idStr \in DOMAIN artworks
                     /\ artworks' = Restrict(artworks, DOMAIN artworks \ {idStr})
                ELSE artworks' = artworks]_vars

\* The last artwork of group 1 has just been deleted: the group is stored,
\* with its fields, and has no artwork.
C17_GroupLeftEmpty ==
    /\ resp.op = "DeleteArtwork"
    /\ resp.status = 200
    /\ nextArtworkId = 3
    /\ artworks = << >>
    /\ 1 \in DOMAIN groups
    /\ groups[1] = [title |-> "t", prompt |-> "p1", category |-> "c"]

---------------------------------------------------------------------------
(* Reading the store: the list queries of internal/database and the GET     *)
(* handlers of internal/api.                                                *)

MaxListArtworks == 3

\* SQLite's BINARY collation on the model names in use.
ModelOrder == <<"", "mA", "mB">>
ModelRank(m) == CHOOSE i \in DOMAIN ModelOrder : ModelOrder[i] = m

\* The orders in which a scan can deliver the rows with ids S.
Orderings(S) ==
    { p \in [1..Cardinality(S) -> S] :
        \A i, j \in 1..Cardinality(S) : i # j => p[i] # p[j] }

\* The row rows.Scan fills for artwork a.
ArtworkRow(a) ==
    [id |-> a, group_id |-> artworks[a].group_id, model |-> artworks[a].model,
     temperature |-> artworks[a].temperature, max_tokens |-> artworks[a].max_tokens,
     svg |-> artworks[a].svg]

RECURSIVE InsertByModel(_, _)
InsertByModel(row, sorted) ==
    IF sorted = << >> THEN << row >>
    ELSE IF ModelRank(row.model) < ModelRank(Head(sorted).model)
    THEN << row >> \o sorted
    ELSE << Head(sorted) >> \o InsertByModel(row, Tail(sorted))

\* A query without its ORDER BY clause.
SortByModelNone(rows) == rows

\* ORDER BY model ASC: rows of equal model stay in the order scanned.
RECURSIVE SortByModel(_)
SortByModel(rows) ==
    IF rows = << >> THEN << >>
    ELSE InsertByModel(rows[Len(rows)], SortByModel(SubSeq(rows, 1, Len(rows) - 1)))

\* ListArtworksByGroup: the results the query can give; the order among
\* rows of one model is not fixed by the query.
ListArtworksByGroup(groupID) ==
    { SortByModel([i \in DOMAIN p |-> ArtworkRow(p[i])]) :
        p \in Orderings({ a \in DOMAIN artworks : artworks[a].group_id = groupID }) }

\* ListGroups: the query selects eight columns and rows.Scan is given six
\* destinations, so Scan fails on the first row; only an empty table lists.
ListGroups ==
    IF DOMAIN groups = {}
    THEN [err |-> FALSE, groups |-> << >>]
    ELSE [err |-> TRUE, groups |-> << >>]

\* The ids S, newest first (ORDER BY created_at DESC).
RECURSIVE Descending(_)
Descending(S) ==
    IF S = {} THEN << >>
    ELSE LET m == CHOOSE x \in S : \A y \in S : y <= x
         IN  << m >> \o Descending(S \ {m})

\* The query without its WHERE category = ? clause.
ListGroupsWithArtworksUnfiltered(category) ==
    LET ids  == DOMAIN groups
        keys == { g \in ids : \E a \in DOMAIN artworks : artworks[a].group_id = g }
        rows == [i \in DOMAIN Descending(ids) |->
                   [id |-> Descending(ids)[i]] @@ groups[Descending(ids)[i]]]
    IN  { [err |-> FALSE, groups |-> rows, artworkMap |-> m] :
            m \in { f \in [keys -> UNION { ListArtworksByGroup(g) : g \in keys }] :
                      \A g \in keys : f[g] \in ListArtworksByGroup(g) } }

\* ListGroupsWithArtworks: the groups of the category (all when it is ""),
\* and the artworks of those groups keyed by group id.
ListGroupsWithArtworks(category) ==
    LET ids  == { g \in DOMAIN groups : category = "" \/ groups[g].category = category }
        keys == { g \in ids : \E a \in DOMAIN artworks : artworks[a].group_id = g }
        rows == [i \in DOMAIN Descending(ids) |->
                   [id |-> Descending(ids)[i]] @@ groups[Descending(ids)[i]]]
    IN  { [err |-> FALSE, groups |-> rows, artworkMap |-> m] :
            m \in { f \in [keys -> UNION { ListArtworksByGroup(g) : g \in keys }] :
                      \A g \in keys : f[g] \in ListArtworksByGroup(g) } }

RespondBody(op, status, body) ==
    resp' = [op |-> op, status |-> status, id |-> 0, err |-> "",
             svg |-> EmptySVG, sent |-> 0, body |-> body]

ListGroupsHandler ==
    /\ UNCHANGED <<dbVars, conns, editingEnabled, apiKeySet, reqs, lastSave>>
    /\ IF ListGroups.err
       THEN Respond("ListGroups", 500)
       ELSE RespondBody("ListGroups", 200, ListGroups.groups)

GetGroupHandler(idStr) ==
    /\ UNCHANGED <<dbVars, conns, editingEnabled, apiKeySet, reqs, lastSave>>
    /\ IF idStr = NaN
       THEN Respond("GetGroup", 400)
       ELSE IF GetGroup(idStr).err
       THEN Respond("GetGroup", 500)
       ELSE \E list \in ListArtworksByGroup(idStr) :
               RespondBody("GetGroup", 200,
                           [group |-> GetGroup(idStr).group, artworks |-> list])

\* GetDistinctCategories: the non-empty categories in use, in the order of
\* SQLite's BINARY collation.
GetDistinctCategories ==
    SelectSeq(<<"c", "d">>,
              LAMBDA c : \E g \in DOMAIN groups : groups[g].category = c)

\* The gallery shows the artworks of the allowed models only.
allowedModelsContains(model) == model \in {"mA"}

\* GalleryHandler: GET /gallery?category=...
GalleryHandler(methodOK, category) ==
    /\ UNCHANGED <<dbVars, conns, editingEnabled, apiKeySet, reqs, lastSave>>
    /\ IF ~methodOK
       THEN Respond("Gallery", 405)
       ELSE IF category = "" /\ GetDistinctCategories # << >>
       THEN RespondBody("Gallery", 302, [location |-> Head(GetDistinctCategories)])
       ELSE \E r \in ListGroupsWithArtworks(category) :
               IF r.err
               THEN Respond("Gallery", 500)
               ELSE RespondBody("Gallery", 200,
                       [groups |->
                           [i \in DOMAIN r.groups |->
                               [group |-> r.groups[i],
                                artworks |->
                                   SelectSeq(IF r.groups[i].id \in DOMAIN r.artworkMap
                                             THEN r.artworkMap[r.groups[i].id]
                                             ELSE << >>,
                                             LAMBDA a : allowedModelsContains(a.model))]],
                        categories |-> GetDistinctCategories,
                        category |-> category])

\* The characters of the model names in use.
ModelChars(model) ==
    IF model = "mA" THEN <<"m", "A">>
    ELSE IF model = "mB" THEN <<"m", "B">>
    ELSE << >>

\* LIKE folds the case of ASCII letters.
Lower(ch) ==
    IF ch = "A" THEN "a" ELSE IF ch = "B" THEN "b" ELSE IF ch = "M" THEN "m" ELSE ch

\* model LIKE '%' || pattern || '%', for a pattern without % and _.
Like(model, pattern) ==
    \E i \in 0..(Len(ModelChars(model)) - Len(pattern)) :
       \A j \in 1..Len(pattern) :
          Lower(ModelChars(model)[i + j]) = Lower(pattern[j])

\* The groups holding an artwork like either model.
QualifyingGroupsEither(model1, model2) ==
    { g \in DOMAIN groups :
        \E a \in DOMAIN artworks :
           /\ artworks[a].group_id = g
           /\ Like(artworks[a].model, model1) \/ Like(artworks[a].model, model2) }

\* The rows of the first query before ORDER BY RANDOM() LIMIT 1.
QualifyingGroups(model1, model2) ==
    { g \in DOMAIN groups :
        /\ \E a \in DOMAIN artworks :
              artworks[a].group_id = g /\ Like(artworks[a].model, model1)
        /\ \E a \in DOMAIN artworks :
              artworks[a].group_id = g /\ Like(artworks[a].model, model2) }

\* The second query without its ORDER BY clause.
OrderByCaseNone(rows, model1, model2) == rows

\* ORDER BY CASE WHEN model LIKE ? THEN 1 WHEN model LIKE ? THEN 2 ELSE 3 END
OrderByCase(rows, model1, model2) ==
    SelectSeq(rows, LAMBDA a : Like(a.model, model1))
    \o SelectSeq(rows, LAMBDA a : ~Like(a.model, model1) /\ Like(a.model, model2))
    \o SelectSeq(rows, LAMBDA a : ~Like(a.model, model1) /\ ~Like(a.model, model2))

NotFound == "no group found with artworks from both models"

\* GetRandomGroupWithModelArtworks: the results the call can give.  RANDOM()
\* picks any qualifying group; the order among rows of one CASE value is not
\* fixed by the query.
GetRandomGroupWithModelArtworks(model1, model2) ==
    IF QualifyingGroups(model1, model2) = {}
    THEN { [err |-> NotFound] }
    ELSE UNION {
           { [err |-> "", group |-> [id |-> g] @@ groups[g],
              artworks |-> OrderByCase([i \in DOMAIN p |-> ArtworkRow(p[i])],
                                       model1, model2)] :
               p \in Orderings({ a \in DOMAIN artworks :
                                   /\ artworks[a].group_id = g
                                   /\ \/ Like(artworks[a].model, model1)
                                      \/ Like(artworks[a].model, model2) }) } :
           g \in QualifyingGroups(model1, model2) }

\* HomepageHandler: the featured group is drawn for the two full model names
\* and, when that finds none, for their vendor parts.
HomepageHandler(pathOK) ==
    /\ UNCHANGED <<dbVars, conns, editingEnabled, apiKeySet, reqs, lastSave>>
    /\ IF ~pathOK
       THEN Respond("Homepage", 404)
       ELSE \E r \in GetRandomGroupWithModelArtworks(<<"m", "A">>, <<"m", "B">>) :
               IF r.err = ""
               THEN RespondBody("Homepage", 200, [featured |-> << r >>])
               ELSE \E f \in GetRandomGroupWithModelArtworks(<<"A">>, <<"B">>) :
                       IF f.err = ""
                       THEN RespondBody("Homepage", 200, [featured |-> << f >>])
                       ELSE RespondBody("Homepage", 200, [featured |-> << >>])

ListGroupBodies == { <<"t", "p1", "c">>, <<"u", "p2", "d">> }
ListCategories == {"", "c", "d"}
LikePatterns == { <<"m", "A">>, <<"m", "B">>, <<"a">>, <<"m">> }

ListInit == Init /\ editingEnabled /\ ~apiKeySet

ListCreateGroup ==
    /\ \E b \in ListGroupBodies : CreateGroupHandler(TRUE, b[1], b[2], b[3])
    /\ Within(MaxStoreGroups, MaxListArtworks)
    /\ ServerOnly
ListDeleteGroup ==
    /\ \E id \in 1..MaxStoreGroups : DeleteGroupHandler(id)
    /\ ServerOnly
ListCreateArtwork ==
    /\ \E g \in 1..MaxStoreGroups, m \in StoreModels :
          CreateArtworkHandler(TRUE, g, m, 7, 50000)
    /\ Within(MaxStoreGroups, MaxListArtworks)
    /\ ServerOnly
ListDeleteArtwork ==
    /\ \E id \in 1..MaxListArtworks : DeleteArtworkHandler(id)
    /\ ServerOnly
ListGroupsRequest == ListGroupsHandler /\ ServerOnly
GetGroupRequest ==
    /\ \E idStr \in IdStrs(MaxStoreGroups) : GetGroupHandler(idStr)
    /\ ServerOnly

GalleryRequest ==
    /\ \E methodOK \in BOOLEAN, category \in ListCategories :
          GalleryHandler(methodOK, category)
    /\ ServerOnly

HomepageRequest ==
    /\ \E pathOK \in BOOLEAN : HomepageHandler(pathOK)
    /\ ServerOnly

ListNext ==
    \/ ListCreateGroup
    \/ ListDeleteGroup
    \/ ListCreateArtwork
    \/ ListDeleteArtwork
    \/ ListGroupsRequest
    \/ GetGroupRequest
    \/ GalleryRequest
    \/ HomepageRequest
    \/ OpenConn

SpecList == ListInit /\ [][ListNext]_vars

\* C18: a group created from a non-empty title and prompt is returned by
\* GetGroup on the id the create call gave, with the title, prompt and
\* category supplied; that id is no id a create call gave before (it is at
\* least the insert counter, which never goes back and passes it); and
\* GetGroupHandler answers with the stored group.
C18_CreateThenGetGroup ==
    [][/\ nextGroupId' >= nextGroupId
       /\ \A b \in ListGroupBodies :
             (CreateGroupHandler(TRUE, b[1], b[2], b[3]) /\ resp'.status = 201) =>
                \E id \in 1..(MaxStoreGroups + 1) :
                   /\ id = resp'.id
                   /\ id \notin DOMAIN groups
                   /\ id >= nextGroupId
                   /\ nextGroupId' > id
                   /\ GetGroup(id)' =
                         [err |-> FALSE,
                          group |-> [title |-> b[1], prompt |-> b[2], category |-> b[3]]]
       /\ \A id \in 1..MaxStoreGroups :
             (GetGroupHandler(id) /\ resp'.status = 200) =>
                resp'.body.group = GetGroup(id).group]_vars

\* After group 1 was deleted a second group was created and fetched: it has
\* id 2 and the fields supplied for it.
C18_SecondGroupFetched ==
    /\ resp.op = "GetGroup"
    /\ resp.status = 200
    /\ DOMAIN groups = {2}
    /\ resp.body.group = [title |-> "u", prompt |-> "p2", category |-> "d"]

\* C19: for every group id, each result ListArtworksByGroup can give holds
\* the stored artworks of that group id, each once and with its stored
\* fields, holds no artwork of another group, and is in ascending order of
\* model; and GetGroupHandler answers with such a result.
C19_ListArtworksByGroup ==
    /\ [](\A g \in 1..MaxStoreGroups :
            \A list \in ListArtworksByGroup(g) :
               LET mine == { a \in DOMAIN artworks : artworks[a].group_id = g }
               IN  /\ Len(list) = Cardinality(mine)
                   /\ { list[i].id : i \in DOMAIN list } = mine
                   /\ \A i \in DOMAIN list : list[i] = ArtworkRow(list[i].id)
                   /\ \A i, j \in DOMAIN list :
                         i < j => ModelRank(list[i].model) <= ModelRank(list[j].model))
    /\ [][\A g \in 1..MaxStoreGroups :
            (GetGroupHandler(g) /\ resp'.status = 200) =>
               resp'.body.artworks \in ListArtworksByGroup(g)]_vars

\* Group 1 holds an artwork of model mB created before one of model mA,
\* group 2 holds another artwork, and the answer for group 1 lists mA's
\* artwork first and mB's second.
C19_ListedByModel ==
    /\ resp.op = "GetGroup"
    /\ resp.status = 200
    /\ Len(resp.body.artworks) = 2
    /\ resp.body.artworks[1].id = 2
    /\ resp.body.artworks[1].model = "mA"
    /\ resp.body.artworks[2].id = 1
    /\ resp.body.artworks[2].model = "mB"
    /\ 3 \in DOMAIN artworks
    /\ artworks[3].group_id = 2

\* C20: ListGroups succeeds, and the artworks in the mapping of
\* ListGroupsWithArtworks("") are as many as the artworks
\* ListArtworksByGroup returns summed over the groups ListGroups returns.
C20_TotalsAgree ==
    /\ ~ListGroups.err
    /\ \A r \in ListGroupsWithArtworks("") :
          Cardinality({ <<g, j>> \in (DOMAIN r.artworkMap) \X (1..MaxListArtworks) :
                           j <= Len(r.artworkMap[g]) })
          = Cardinality({ <<i, j>> \in (DOMAIN ListGroups.groups) \X (1..MaxListArtworks) :
                           \A list \in ListArtworksByGroup(ListGroups.groups[i].id) :
                              j <= Len(list) })

\* C21: for a non-empty category, ListGroupsWithArtworks gives a result, and
\* every result it can give holds the stored groups of that category, each
\* once and with its stored fields, and no other group; holds under each
\* returned group's id the stored artworks of that group, each once, and no
\* key of another group; and is an empty list with an empty mapping when no
\* group has the category.  GalleryHandler shows the groups of such a result.
C21_GroupsOfCategory ==
    /\ [](\A c \in ListCategories \ {""} :
            LET match == { g \in DOMAIN groups : groups[g].category = c }
            IN  /\ ListGroupsWithArtworks(c) # {}
                /\ \A r \in ListGroupsWithArtworks(c) :
                      /\ ~r.err
                      /\ Len(r.groups) = Cardinality(match)
                      /\ { r.groups[i].id : i \in DOMAIN r.groups } = match
                      /\ \A i \in DOMAIN r.groups :
                            /\ r.groups[i].title = groups[r.groups[i].id].title
                            /\ r.groups[i].prompt = groups[r.groups[i].id].prompt
                            /\ r.groups[i].category = c
                      /\ DOMAIN r.artworkMap \subseteq match
                      /\ \A g \in match :
                            LET mine == { a \in DOMAIN artworks : artworks[a].group_id = g }
                                list == IF g \in DOMAIN r.artworkMap
                                        THEN r.artworkMap[g] ELSE << >>
                            IN  /\ Len(list) = Cardinality(mine)
                                /\ { list[i].id : i \in DOMAIN list } = mine
                                /\ \A i \in DOMAIN list : list[i] = ArtworkRow(list[i].id)
                      /\ match = {} => (r.groups = << >> /\ DOMAIN r.artworkMap = {}))
    /\ [][\A c \in ListCategories \ {""} :
            (GalleryHandler(TRUE, c) /\ resp'.status = 200) =>
               { resp'.body.groups[i].group.id : i \in DOMAIN resp'.body.groups }
                  = { g \in DOMAIN groups : groups[g].category = c }]_vars

\* Two groups of different categories are stored, each with an artwork, and
\* the gallery of category "d" shows group 2 alone, with its artwork.
C21_OneOfTwoCategoriesShown ==
    /\ resp.op = "Gallery"
    /\ resp.status = 200
    /\ resp.body.category = "d"
    /\ DOMAIN groups = {1, 2}
    /\ groups[1].category = "c"
    /\ \E a, b \in DOMAIN artworks :
          artworks[a].group_id = 1 /\ artworks[b].group_id = 2 /\ artworks[b].model = "mA"
    /\ Len(resp.body.groups) = 1
    /\ resp.body.groups[1].group.id = 2
    /\ Len(resp.body.groups[1].artworks) = 1

C23_ArtworksOfGroupInModelOrder ==
    \A model1, model2 \in LikePatterns :
       \A r \in GetRandomGroupWithModelArtworks(model1, model2) :
          r.err = "" =>
             LET list == r.artworks
                 mine == { a \in DOMAIN artworks :
                             /\ artworks[a].group_id = r.group.id
                             /\ \/ Like(artworks[a].model, model1)
                                \/ Like(artworks[a].model, model2) }
             IN  /\ Len(list) = Cardinality(mine)
                 /\ { list[i].id : i \in DOMAIN list } = mine
                 /\ \A i \in DOMAIN list :
                       /\ list[i] = ArtworkRow(list[i].id)
                       /\ list[i].group_id = r.group.id
                       /\ Like(list[i].model, model1) \/ Like(list[i].model, model2)
                 /\ \A i, j \in DOMAIN list :
                       (/\ Like(list[j].model, model1)
                        /\ ~Like(list[i].model, model1)) => j < i

\* The featured group's artwork of model mB was created before its artwork
\* of model mA, and the homepage shows mA's first.
C23_SecondModelCreatedFirst ==
    /\ resp.op = "Homepage"
    /\ resp.status = 200
    /\ resp.body.featured # << >>
    /\ Len(resp.body.featured[1].artworks) = 2
    /\ resp.body.featured[1].artworks[1].model = "mA"
    /\ resp.body.featured[1].artworks[2].model = "mB"
    /\ resp.body.featured[1].artworks[1].id > resp.body.featured[1].artworks[2].id

---------------------------------------------------------------------------
(* The store of the slug-keyed schema: one table artworks with              *)
(* UNIQUE(slug, model), written by SaveArtwork.                             *)

MaxSlugSaves == 4

SlugArtworks ==
    [title : {"t"}, slug : {"s1", "s2"}, category : {"c"}, prompt : {"p1"},
     model : {"mA", "mB"}, svg_content : { <<"<", "a", ">">>, <<"<", "b", ">">> },
     temperature : {7}, max_tokens : {100}]

\* A plain INSERT into a table without the UNIQUE(slug, model) constraint.
SaveArtworkAppending(artwork) ==
    [err |-> FALSE, artworks |-> (nextArtworkId :> artwork) @@ artworks]

\* SaveArtwork: INSERT OR REPLACE deletes the row that holds the new row's
\* (slug, model) and inserts the new row under the next AUTOINCREMENT id.
SaveArtwork(artwork) ==
    [err |-> FALSE,
     artworks |-> (nextArtworkId :> artwork)
                  @@ Restrict(artworks,
                              { a \in DOMAIN artworks :
                                  ~(/\ artworks[a].slug = artwork.slug
                                    /\ artworks[a].model = artwork.model) })]

SaveArtworkCall(artwork) ==
    /\ artworks' = SaveArtwork(artwork).artworks
    /\ nextArtworkId' = nextArtworkId + 1
    /\ Respond("SaveArtwork", IF SaveArtwork(artwork).err THEN 500 ELSE 200)
    /\ UNCHANGED <<groups, nextGroupId, schema, conns, editingEnabled, apiKeySet, reqs, lastSave>>

DeleteArtworkCall(id) ==
    /\ artworks' = DeleteArtwork(id).artworks
    /\ Respond("DeleteArtwork", IF DeleteArtwork(id).err THEN 500 ELSE 200)
    /\ UNCHANGED <<groups, nextGroupId, nextArtworkId, schema, conns, editingEnabled,
                   apiKeySet, reqs, lastSave>>

SlugInit == Init /\ ~editingEnabled /\ ~apiKeySet

SlugSave ==
    /\ nextArtworkId <= MaxSlugSaves
    /\ \E artwork \in SlugArtworks : SaveArtworkCall(artwork)
    /\ ServerOnly
SlugDelete ==
    /\ \E id \in 1..MaxSlugSaves : DeleteArtworkCall(id)
    /\ ServerOnly

SlugNext ==
    \/ SlugSave
    \/ SlugDelete

SpecSlug == SlugInit /\ [][SlugNext]_vars

\* C24: in the slug-keyed store no two stored artworks have the same slug
\* and model; and a SaveArtwork call leaves one stored artwork of its slug
\* and model, holding the content saved, and leaves every stored artwork of
\* another slug or model stored under its id with its content.
C24_OnePerSlugAndModel ==
    /\ [](\A a, b \in DOMAIN artworks :
            (artworks[a].slug = artworks[b].slug /\ artworks[a].model = artworks[b].model)
               => a = b)
    /\ [][\A artwork \in SlugArtworks :
            SaveArtworkCall(artwork) =>
               /\ resp'.status = 200
               /\ \E a \in DOMAIN artworks' :
                     /\ artworks'[a] = artwork
                     /\ \A b \in DOMAIN artworks' :
                           (/\ artworks'[b].slug = artwork.slug
                            /\ artworks'[b].model = artwork.model) => b = a
               /\ \A b \in DOMAIN artworks :
                     ~(artworks[b].slug = artwork.slug /\ artworks[b].model = artwork.model)
                        => (b \in DOMAIN artworks' /\ artworks'[b] = artworks[b])
               /\ \A b \in DOMAIN artworks' :
                     ~(artworks'[b].slug = artwork.slug /\ artworks'[b].model = artwork.model)
                        => b \in DOMAIN artworks]_vars

\* The artwork of (s1, mA) has been saved a second time with another content
\* beside an artwork of (s1, mB): two artworks are stored, the first save's
\* row is gone and the row of (s1, mA) holds the second content.
C24_PairSavedTwice ==
    /\ resp.op = "SaveArtwork"
    /\ DOMAIN artworks = {2, 3}
    /\ artworks[2].slug = "s1" /\ artworks[2].model = "mB"
    /\ artworks[3].slug = "s1" /\ artworks[3].model = "mA"
    /\ artworks[3].svg_content = <<"<", "b", ">">>

\* C25: a generation that finishes after its artwork was deleted, or after
\* the artwork's group was deleted, ends in an error and writes nothing: the
\* artwork is not stored again and no other artwork is changed.
C25_DeletedInFlightFails ==
    [][\A s \in ReqIds, r \in ApiResponses :
         (/\ GenerateArtworkReturn(s, r)
          /\ \/ reqs[s].id \notin DOMAIN artworks
             \/ artworks[reqs[s].id].group_id \notin DOMAIN groups)
            => (resp'.status = 500 /\ artworks' = artworks)]_vars

\* C26: every connection of the pool runs its statements with foreign keys
\* enforced, so no statement can run without them.
C26_EveryConnectionEnforces ==
    /\ \A i \in DOMAIN conns : conns[i]
    /\ ConnFKs = {TRUE}

---------------------------------------------------------------------------
(* Starting the process on a database file: database.New runs              *)
(* CreateTables, which can be cut off between its statements.              *)

SchemaInit ==
    /\ groups = << >>
    /\ artworks = << >>
    /\ nextGroupId = 1
    /\ nextArtworkId = 1
    /\ schema = NewFile
    /\ conns = NewPool
    /\ editingEnabled = TRUE
    /\ apiKeySet = FALSE
    /\ reqs = [s \in ReqIds |-> Idle]
    /\ lastSave = << >>
    /\ resp = NoResp
    /\ RLInit
    /\ ClientInit

\* database.New on the file: a new pool, then CreateTables.  The outcome is
\* noted as 200 for nil, 500 for an error and 0 for a run that was cut off.
New(stop) ==
    /\ schema' = CreateTables(schema, stop).schema
    /\ conns' = NewPool
    /\ reqs' = [s \in ReqIds |-> Idle]
    /\ Respond("CreateTables",
               IF CreateTables(schema, stop).err = "" THEN 200
               ELSE IF CreateTables(schema, stop).err = "interrupted" THEN 0
               ELSE 500)
    /\ UNCHANGED <<groups, artworks, nextGroupId, nextArtworkId, editingEnabled,
                   apiKeySet, lastSave>>

SchemaStart ==
    /\ \E stop \in Stops : New(stop)
    /\ ServerOnly
SchemaCreateGroup == schema.tables /\ ListCreateGroup
SchemaCreateArtwork == schema.tables /\ ListCreateArtwork
SchemaDeleteArtwork == schema.tables /\ ListDeleteArtwork

SchemaNext ==
    \/ SchemaStart
    \/ SchemaCreateGroup
    \/ SchemaCreateArtwork
    \/ SchemaDeleteArtwork

SpecSchema == SchemaInit /\ [][SchemaNext]_vars

\* C27: a run of CreateTables that is not cut off returns nil and leaves the
\* migrations table, the data tables and one row of version 1, whatever
\* earlier runs did to the file, and changes no stored row.
C27_RerunCompletes ==
    [][New(NoStop) =>
         /\ resp'.status = 200
         /\ schema' = Migrated
         /\ UNCHANGED <<groups, artworks>>]_vars

\* C28: no key's list ever holds more than limit timestamps; the statements
\* of a call of Allow that is rejected, and every statement of an admitted
\* call but its append, add no timestamp to any list; the append belongs to
\* a call that returns true and adds one timestamp to the list of its key;
\* and no statement of a call for one key changes the list of another key
\* or what Allow would answer for another key.
C28_AllowTouchesItsKeyOnly ==
    /\ [](\A k \in Keys : Len(RequestsOf(rl.requests, k)) <= rl.limit)
    /\ [][\A p \in ProcIds :
            /\ ( \/ \E key \in Keys : AllowCall(p, key)
                 \/ AllowLock(p)
                 \/ AllowPrune(p)
                 \/ AllowCheck(p)
                 \/ AllowReturn(p) )
                  => \A k \in Keys :
                        Len(RequestsOf(rl'.requests, k)) <= Len(RequestsOf(rl.requests, k))
            /\ AllowAppend(p) =>
                  /\ procs'[p].ok
                  /\ RequestsOf(rl'.requests, procs[p].key)
                        = Append(RequestsOf(rl.requests, procs[p].key), procs[p].now)
            /\ (AllowCheck(p) /\ ~UnderLimit(rl.requests, procs[p].key)) =>
                  (procs'[p].pc = "return" /\ ~procs'[p].ok /\ rl' = rl)
            /\ (AllowReturn(p) /\ ~procs[p].ok) =>
                  (rl' = rl /\ resp'.status = 429)
            /\ (AllowLock(p) \/ AllowPrune(p) \/ AllowCheck(p)
                   \/ AllowAppend(p) \/ AllowReturn(p)) =>
                  \A k \in Keys \ {procs[p].key} :
                     /\ RequestsOf(rl'.requests, k) = RequestsOf(rl.requests, k)
                     /\ Allow(rl'.requests, k, now).ok = Allow(rl.requests, k, now).ok]_vars

\* A call for ip1 has found ip1's list at the limit and is about to return
\* false, while ip2's list holds one timestamp and ip2 would be admitted.
C28_RejectedBesideOtherKey ==
    /\ procs[1].pc = "return"
    /\ procs[1].key = "ip1"
    /\ ~procs[1].ok
    /\ Len(RequestsOf(rl.requests, "ip1")) = rl.limit
    /\ Len(RequestsOf(rl.requests, "ip2")) = 1
    /\ Allow(rl.requests, "ip2", now).ok

---------------------------------------------------------------------------
(* The workshop page on a stored group: Regenerate and Model Settings of    *)
(* the artwork cards, the requests they send and the handlers serving them. *)
(* net holds the operations the client has started, in order, each with     *)
(* its stage: sent, serving, answered, settled.                             *)

MaxWorkshopArtworks == 2
MaxOps == 3

WorkshopParams == { <<15, 100>> }
WorkshopResponses ==
    { r \in ApiResponses :
        \/ r.choices = << <<" ", "<", "b", ">", "\n">> >> /\ ReadResponse(r).err = ""
        \/ r.status = 429 }

\* A card whose Regenerate control is never disabled.
RegenerateDisabledNever(artworkId) == FALSE

\* ArtworkCard: disabled = isGenerating = generatingArtworks.has(id).
RegenerateDisabled(artworkId) == artworkId \in client.generatingArtworks

\* reducer, UPDATE_ARTWORK: map.set(Number(art.id), art).
UPDATE_ARTWORK(map, art) == (art.id :> art) @@ map

\* generateArtwork(artworkId) up to its await: the artwork is read from the
\* state, the id is added to generatingArtworks, the request is sent.
generateArtwork(artworkId) ==
    /\ Len(net) < MaxOps
    /\ artworkId \in DOMAIN client.artworks
    /\ ~RegenerateDisabled(artworkId)
    /\ client' = [client EXCEPT !.generatingArtworks = @ \cup {artworkId}]
    /\ net' = Append(net, [kind |-> "generate", id |-> artworkId, stage |-> "sent",
                           artwork |-> client.artworks[artworkId],
                           status |-> 0, svg |-> EmptySVG])
    /\ UNCHANGED <<serverVars, rlVars>>

\* "await api.generateArtwork" settles: on an ok response the artwork read
\* before the request is stored again with the svg of the response; the id
\* leaves generatingArtworks in the finally block.
generateArtworkSettled(i) ==
    /\ net[i].kind = "generate"
    /\ net[i].stage = "answered"
    /\ client' = [client EXCEPT
                    !.artworks = IF ResponseOk(net[i].status)
                                 THEN UPDATE_ARTWORK(@, [net[i].artwork EXCEPT
                                                           !.svg = net[i].svg])
                                 ELSE @,
                    !.toast = IF ResponseOk(net[i].status)
                              THEN "Artwork generated" ELSE "Generation failed",
                    !.generatingArtworks = @ \ {net[i].id}]
    /\ net' = [net EXCEPT ![i].stage = "settled"]
    /\ UNCHANGED <<serverVars, rlVars>>

\* updateArtworkParams(artworkId, params) up to its await.
updateArtworkParams(artworkId, temperature, maxTokens) ==
    /\ Len(net) < MaxOps
    /\ artworkId \in DOMAIN client.artworks
    /\ net' = Append(net, [kind |-> "update", id |-> artworkId, stage |-> "sent",
                           temperature |-> temperature, max_tokens |-> maxTokens,
                           status |-> 0, body |-> << >>])
    /\ UNCHANGED <<serverVars, rlVars, client>>

\* "await api.updateArtwork" settles: the artwork of the response is stored.
updateArtworkParamsSettled(i) ==
    /\ net[i].kind = "update"
    /\ net[i].stage = "answered"
    /\ client' = [client EXCEPT
                    !.artworks = IF ResponseOk(net[i].status)
                                 THEN UPDATE_ARTWORK(@, net[i].body[1])
                                 ELSE @,
                    !.toast = IF ResponseOk(net[i].status)
                              THEN "Parameters updated"
                              ELSE "Failed to update parameters"]
    /\ net' = [net EXCEPT ![i].stage = "settled"]
    /\ UNCHANGED <<serverVars, rlVars>>

\* The server handles PATCH /api/artworks/{id}: UpdateArtworkHandler, whose
\* 200 body is the artwork GetArtwork returns after the update.
ServeUpdateArtwork(i) ==
    /\ net[i].kind = "update"
    /\ net[i].stage = "sent"
    /\ UpdateArtworkHandler(net[i].id, TRUE, net[i].temperature, net[i].max_tokens)
    /\ net' = [net EXCEPT ![i].stage = "answered",
                          ![i].status = resp'.status,
                          ![i].body = IF resp'.status = 200
                                      THEN << [id |-> net[i].id] @@ artworks'[net[i].id] >>
                                      ELSE << >>]
    /\ UNCHANGED <<rlVars, client>>

\* The server handles POST /api/generate {artwork_id}: the steps of
\* GenerateArtworkHandler, in the request slot of the artwork's id.
Answered(i) ==
    [net EXCEPT ![i].stage = "answered", ![i].status = resp'.status,
                ![i].svg = resp'.svg]
ServeGenerateArtwork(i) ==
    /\ net[i].kind = "generate"
    /\ net[i].stage = "sent"
    /\ GenerateArtworkHandler(net[i].id, TRUE, TRUE, net[i].id)
    /\ net' = IF reqs'[net[i].id].pc = "idle"
              THEN Answered(i) ELSE [net EXCEPT ![i].stage = "serving"]
    /\ UNCHANGED <<rlVars, client>>
ServeGenerateCall(i) ==
    /\ net[i].kind = "generate"
    /\ net[i].stage = "serving"
    /\ GenerateArtworkCall(net[i].id)
    /\ net' = IF reqs'[net[i].id].pc = "idle" THEN Answered(i) ELSE net
    /\ UNCHANGED <<rlVars, client>>
ServeGenerateReturn(i, r) ==
    /\ net[i].kind = "generate"
    /\ net[i].stage = "serving"
    /\ GenerateArtworkReturn(net[i].id, r)
    /\ net' = Answered(i)
    /\ UNCHANGED <<rlVars, client>>

\* The page is opened on group 1, whose artworks are window.existingArtworks.
WorkshopInit ==
    /\ groups = (1 :> [title |-> "t", prompt |-> "p1", category |-> "c"])
    /\ artworks = [a \in 1..MaxWorkshopArtworks |->
                     [group_id |-> 1, model |-> "mA", temperature |-> 7,
                      max_tokens |-> 50000, svg |-> EmptySVG]]
    /\ nextGroupId = 2
    /\ nextArtworkId = MaxWorkshopArtworks + 1
    /\ schema = Migrated
    /\ conns = NewPool
    /\ editingEnabled = TRUE
    /\ apiKeySet = TRUE
    /\ reqs = [s \in ReqIds |-> Idle]
    /\ lastSave = << >>
    /\ resp = NoResp
    /\ RLInit
    /\ client = [pc |-> "idle", toast |-> "", generatingArtworks |-> {},
                 artworks |-> [a \in 1..MaxWorkshopArtworks |-> ArtworkRow(a)]]
    /\ net = << >>

ClickRegenerate == \E id \in 1..MaxWorkshopArtworks : generateArtwork(id)
SaveSettings ==
    \E id \in 1..MaxWorkshopArtworks, b \in WorkshopParams :
        updateArtworkParams(id, b[1], b[2])
GenerateSettled == \E i \in 1..MaxOps : i \in DOMAIN net /\ generateArtworkSettled(i)
UpdateSettled   == \E i \in 1..MaxOps : i \in DOMAIN net /\ updateArtworkParamsSettled(i)
ServeUpdate     == \E i \in 1..MaxOps : i \in DOMAIN net /\ ServeUpdateArtwork(i)
ServeGenerate   == \E i \in 1..MaxOps : i \in DOMAIN net /\ ServeGenerateArtwork(i)
ServeCall       == \E i \in 1..MaxOps : i \in DOMAIN net /\ ServeGenerateCall(i)
ServeReturn     ==
    \E i \in 1..MaxOps, r \in WorkshopResponses :
        i \in DOMAIN net /\ ServeGenerateReturn(i, r)

WorkshopNext ==
    \/ ClickRegenerate
    \/ SaveSettings
    \/ GenerateSettled
    \/ UpdateSettled
    \/ ServeUpdate
    \/ ServeGenerate
    \/ ServeCall
    \/ ServeReturn

SpecWorkshop == WorkshopInit /\ [][WorkshopNext]_vars

\* C29: an artwork id is in generatingArtworks exactly when a generation
\* the client started for it has not settled; no artwork has two such
\* generations; generateArtwork adds the id as it sends the request; and the
\* settling of the request removes it, whatever the response.
C29_GeneratingWhileInFlight ==
    /\ [](\A id \in 1..MaxWorkshopArtworks :
            /\ id \in client.generatingArtworks <=>
                  \E i \in DOMAIN net :
                     net[i].kind = "generate" /\ net[i].id = id /\ net[i].stage # "settled"
            /\ \A i, j \in DOMAIN net :
                  (/\ net[i].kind = "generate" /\ net[i].id = id /\ net[i].stage # "settled"
                   /\ net[j].kind = "generate" /\ net[j].id = id /\ net[j].stage # "settled")
                     => i = j)
    /\ [][\A id \in 1..MaxWorkshopArtworks :
            generateArtwork(id) =>
               /\ id \notin client.generatingArtworks
               /\ id \in client'.generatingArtworks
               /\ Len(net') = Len(net) + 1
               /\ net'[Len(net')].stage = "sent"]_vars
    /\ [][\A i \in 1..MaxOps :
            (i \in DOMAIN net /\ generateArtworkSettled(i)) =>
               net[i].id \notin client'.generatingArtworks]_vars

\* Artwork 1 was generated twice, one request failed and one succeeded,
\* both have settled and generatingArtworks is empty again.
C29_FailedAndSucceeded ==
    /\ client.generatingArtworks = {}
    /\ \E i, j \in DOMAIN net :
          /\ net[i].kind = "generate" /\ net[i].id = 1 /\ net[i].stage = "settled"
          /\ net[i].status = 500
          /\ net[j].kind = "generate" /\ net[j].id = 1 /\ net[j].stage = "settled"
          /\ net[j].status = 200

\* C30: when every operation the client started on an artwork has settled,
\* the client's record of the artwork is the server's stored record.
C30_CacheAgreesWhenSettled ==
    \A id \in DOMAIN client.artworks :
       (/\ id \in DOMAIN artworks
        /\ \A i \in DOMAIN net : net[i].id = id => net[i].stage = "settled")
          => client.artworks[id] = ArtworkRow(id)

=============================================================================
